---- MODULE Spec2Model ----
(***************************************************************************)
(* Reform Reconciliation & Upsert Engine of the policy atlas:              *)
(* scripts/ingestion/db_utils.py (_dedupe_reforms, bulk_upsert_reforms,    *)
(* bulk_upsert_reform_reform_types) and the enrichment side                *)
(* scripts/enrichment/ai_enrichment.py (update_reform_enrichment, the      *)
(* handling of its result in run_enrichment, merge_duplicate_reforms).     *)
(*                                                                         *)
(* Encoding.  A nullable value is a sequence of length <= 1: None is <<>>  *)
(* and a present value v is <<v>>.  A Python list (scope, land_use,        *)
(* requirements, reform_type_ids) is the set of its members: the code      *)
(* itself rebuilds these lists with list(set(...)), whose order is         *)
(* unspecified.  A NULL array (<<>>) and an empty array (<<{}>>) are kept  *)
(* apart.  created_at / updated_at are not modelled.                       *)
(***************************************************************************)
EXTENDS Integers, Sequences, FiniteSets, TLC

VARIABLES
    reforms,              \* table reforms: id -> row
    reform_reform_types,  \* table reform_reform_types: set of <<reform_id, reform_type_id>>
    nextId,               \* the serial sequence behind reforms.id
    pc,                   \* position of the writer inside bulk_upsert_reforms ("done": the
                          \* call has just returned; "idle": no call's results are current)
    batch,                \* argument `reforms` of the running / last call
    deduped,              \* local `deduped`
    existing_map,         \* local `existing_map`: identity key -> existing id
    new_reforms,          \* local `new_reforms`
    update_reforms,       \* local `update_reforms`: sequence of [id, r]
    all_reform_ids,       \* local `all_reform_ids`
    created_count,        \* local `created_count`
    updated_count,        \* local `updated_count`
    final_reform_ids,     \* local `final_reform_ids` (returned)
    calls,                \* number of bulk_upsert_reforms calls begun
    enrichments,          \* number of update_reform_enrichment calls made
    lastBatch,            \* argument of the previous bulk_upsert_reforms call
    pre_reforms,          \* reforms as it was when the running call began
    pre_types,            \* reform_reform_types as it was when the running call began
    reform_sources,       \* table reform_sources: set of rows, unique by (reform_id, source_id)
    reform_citations,     \* table reform_citations: row -> number of stored copies of it
    pre_links,            \* [sources, citations]: the two tables when the last call began
    call,                 \* the last call made on the enrichment side: its function, its
                          \* arguments and what it returned
    failed,               \* local `failed` of run_enrichment
    run,                  \* a call of run_enrichment: its position, the status of its
                          \* ai_enrichment_runs row, the reforms it found and the
                          \* reforms on which enrich_reform reports an error
    data_ingestion,       \* table data_ingestion: the sequence of rows written
    error,                \* str(e) of the exception the last ingestion run raised
    places,               \* table places: id -> row
    nextPlaceId,          \* the serial sequence behind places.id
    place_call,           \* the last call of bulk_upsert_places: its argument, the
                          \* table before it and what it returned
    merge                 \* a call of merge_duplicate_reforms taken statement by
                          \* statement: its position and its arguments

vars == <<reforms, reform_reform_types, nextId, pc, batch, deduped, existing_map,
          new_reforms, update_reforms, all_reform_ids, created_count, updated_count,
          final_reform_ids, calls, enrichments, lastBatch, pre_reforms, pre_types,
          reform_sources, reform_citations, pre_links, call, failed, run,
          data_ingestion, error, places, nextPlaceId, place_call, merge>>

\* what bulk_upsert_reforms neither reads nor writes
enrichment_side == <<reform_sources, reform_citations, pre_links, call, failed, run,
                     data_ingestion, error, places, nextPlaceId, place_call,
                     merge>>

\* what the functions called on single reforms neither read nor write
driver_side == <<run, data_ingestion, error, places, nextPlaceId, place_call,
                 merge>>

locals == <<deduped, existing_map, new_reforms, update_reforms, all_reform_ids,
            created_count, updated_count, final_reform_ids>>

----------------------------------------------------------------------------
(* Bounds of the model *)

MaxBatch == 2

MaxDedupeBatch == 3

MaxCalls == 2

MaxEnrich == 1

----------------------------------------------------------------------------
(* Nullable values and Python truthiness *)

None == <<>>

Some(v) == <<v>>

Val(x) == x[1]

\* `not arr` for a list-or-None: None and [] are both falsy
FalsyArr(a) == a = None \/ Val(a) = {}

Members(a) == IF a = None THEN {} ELSE Val(a)

\* SQL COALESCE(a, b)
Coalesce(a, b) == IF a # None THEN a ELSE b

----------------------------------------------------------------------------
(* Dates.  The ingestion scripts hand over adoption dates as 'YYYY-MM-DD'   *)
(* strings (parse_flexible_date); the store holds DATE values and hands    *)
(* back date objects, which the lookup turns into strings with isoformat() *)
(* and which a caller may pass on as they are.                             *)

SentinelDate == "1900-01-01"

SentinelStatus == ""

DateTable ==
    { <<"1900-01-01", <<1900, 1, 1>>>>,
      <<"2020-01-01", <<2020, 1, 1>>>>,
      <<"2021-06-01", <<2021, 6, 1>>>> }

\* the store casting a 'YYYY-MM-DD' string parameter to DATE
ToSqlDate(s) == (CHOOSE p \in DateTable : p[1] = s)[2]

\* date.isoformat() of a DATE value fetched from the store
isoformat(d) == (CHOOSE p \in DateTable : p[2] = d)[1]

\* adoption dates that reach bulk_upsert_reforms as datetime.date objects
\* (a DATE column read back, as create_reform_from_submission passes on): the
\* object, written as its repr, and its value
DateObjects ==
    { <<"datetime.date(2020, 1, 1)", <<2020, 1, 1>>>> }

\* hasattr(adoption_date, 'isoformat')
IsDateObject(x) == \E p \in DateObjects : p[1] = x

ObjDate(x) == (CHOOSE p \in DateObjects : p[1] = x)[2]

\* a nullable string or date parameter bound to a DATE column
DateParam(x) ==
    IF x = None THEN None
    ELSE IF IsDateObject(Val(x)) THEN Some(ObjDate(Val(x)))
    ELSE Some(ToSqlDate(Val(x)))

----------------------------------------------------------------------------
(* Identity keys.  Python builds a 2-tuple (place_id, policy_document_id)   *)
(* or a 3-tuple (place_id, date, status); tuples of different length are   *)
(* never equal, which the tag keeps.                                       *)

DocKey(place, doc) ==
    [tag |-> "doc", place |-> place, doc |-> doc, date |-> "", status |-> ""]

NatKey(place, date, status) ==
    [tag |-> "nat", place |-> place, doc |-> 0, date |-> date, status |-> status]

\* variant: the status left out of the natural key
DedupeKeyNoStatus(reform) ==
    IF reform.policy_document_id # None
    THEN DocKey(reform.place_id, Val(reform.policy_document_id))
    ELSE NatKey(reform.place_id,
                IF reform.adoption_date = None THEN SentinelDate
                ELSE Val(reform.adoption_date),
                SentinelStatus)

\* key built inside the loop of _dedupe_reforms
DedupeKey(reform) ==
    LET adoption_date == IF reform.adoption_date = None THEN SentinelDate
                         ELSE Val(reform.adoption_date)
        status == IF reform.status = None THEN SentinelStatus ELSE Val(reform.status)
    IN  IF reform.policy_document_id # None
        THEN DocKey(reform.place_id, Val(reform.policy_document_id))
        ELSE NatKey(reform.place_id, adoption_date, status)

\* variant: the natural key preferred whenever an adoption date is present
PartitionKeyDateFirst(r) ==
    LET norm_date == IF r.adoption_date = None THEN SentinelDate
                     ELSE Val(r.adoption_date)
        norm_status == IF r.status = None \/ Val(r.status) = "" THEN ""
                       ELSE Val(r.status)
    IN  IF r.adoption_date # None \/ r.policy_document_id = None
        THEN NatKey(r.place_id, norm_date, norm_status)
        ELSE DocKey(r.place_id, Val(r.policy_document_id))

\* key built for a deduped record in the partition step and again in the
\* two result-ordering loops (the same statements, three times); a date
\* object becomes isoformat()[:10], a string is used unchanged by the
\* isinstance(adoption_date, str) branch, and `status or ''` maps None and
\* '' to ''
PartitionKey(r) ==
    LET norm_date == IF r.adoption_date = None THEN SentinelDate
                     ELSE IF IsDateObject(Val(r.adoption_date))
                          THEN isoformat(ObjDate(Val(r.adoption_date)))
                     ELSE Val(r.adoption_date)
        norm_status == IF r.status = None \/ Val(r.status) = "" THEN ""
                       ELSE Val(r.status)
    IN  IF r.policy_document_id # None
        THEN DocKey(r.place_id, Val(r.policy_document_id))
        ELSE NatKey(r.place_id, norm_date, norm_status)

\* variant: the status column read without COALESCE and passed through str()
RowKeyStrStatus(row) ==
    LET norm_date == isoformat(Val(Coalesce(row.adoption_date,
                                            Some(ToSqlDate(SentinelDate)))))
        norm_status == IF row.status = None THEN "None" ELSE Val(row.status)
    IN  IF row.policy_document_id # None
        THEN DocKey(row.place_id, Val(row.policy_document_id))
        ELSE NatKey(row.place_id, norm_date, norm_status)

\* key built for a row fetched by the existing-row query:
\* COALESCE(adoption_date, '1900-01-01'::date), COALESCE(status, '')
RowKey(row) ==
    LET norm_date == isoformat(Val(Coalesce(row.adoption_date,
                                            Some(ToSqlDate(SentinelDate)))))
        norm_status == Val(Coalesce(row.status, Some(SentinelStatus)))
    IN  IF row.policy_document_id # None
        THEN DocKey(row.place_id, Val(row.policy_document_id))
        ELSE NatKey(row.place_id, norm_date, norm_status)

----------------------------------------------------------------------------
(* _dedupe_reforms *)

ScalarFields ==
    {"status", "summary", "notes", "reform_mechanism", "reform_phase",
     "legislative_number", "link_url", "adoption_date", "policy_document_id"}

\* every caller passes reform_type_ids as a list, which is returned as it is
\* (the legacy single reform_type_id form has no caller left)
normalize_reform_type_ids(reform) == reform.reform_type_ids

\* variant: the incoming array replaces the accumulated one
merge_arrays_overwrite(arr1, arr2) ==
    IF FalsyArr(arr2) THEN arr1 ELSE arr2

\* helper merge_arrays: union of two lists, None when both are empty
merge_arrays(arr1, arr2) ==
    IF FalsyArr(arr1) THEN (IF FalsyArr(arr2) THEN None ELSE arr2)
    ELSE IF FalsyArr(arr2) THEN arr1
    ELSE Some(Val(arr1) \cup Val(arr2))

\* variant: an existing non-null value is kept
MergeScalarKeepFirst(existing_value, new_value) ==
    IF existing_value = None THEN new_value ELSE existing_value

\* the scalar loop: a non-null new value replaces the existing one
MergeScalar(existing_value, new_value) ==
    IF new_value # None THEN new_value ELSE existing_value

\* the branch `if key in deduped`
MergeRecord(existing, reform) ==
    [ place_id           |-> existing.place_id,
      reform_type_ids    |-> normalize_reform_type_ids(existing)
                                 \cup normalize_reform_type_ids(reform),
      scope              |-> merge_arrays(existing.scope, reform.scope),
      land_use           |-> merge_arrays(existing.land_use, reform.land_use),
      requirements       |-> merge_arrays(existing.requirements, reform.requirements),
      status             |-> MergeScalar(existing.status, reform.status),
      summary            |-> MergeScalar(existing.summary, reform.summary),
      notes              |-> MergeScalar(existing.notes, reform.notes),
      reform_mechanism   |-> MergeScalar(existing.reform_mechanism, reform.reform_mechanism),
      reform_phase       |-> MergeScalar(existing.reform_phase, reform.reform_phase),
      legislative_number |-> MergeScalar(existing.legislative_number, reform.legislative_number),
      link_url           |-> MergeScalar(existing.link_url, reform.link_url),
      adoption_date      |-> MergeScalar(existing.adoption_date, reform.adoption_date),
      policy_document_id |-> MergeScalar(existing.policy_document_id, reform.policy_document_id) ]

\* position of key in the insertion-ordered dict, 0 when absent
KeyIndex(dd, key) ==
    IF \E i \in 1..Len(dd) : dd[i].key = key
    THEN CHOOSE i \in 1..Len(dd) : dd[i].key = key
    ELSE 0

\* one iteration of `for reform in reforms`; dd is the dict `deduped` as the
\* sequence of its [key, rec] items in insertion order
DedupeIter(dd, reform) ==
    IF normalize_reform_type_ids(reform) = {}
    THEN dd
    ELSE LET key == DedupeKey(reform)
             i == KeyIndex(dd, key)
         IN  IF i > 0
             THEN [dd EXCEPT ![i].rec = MergeRecord(@, reform)]
             ELSE Append(dd, [key |-> key, rec |-> reform])

RECURSIVE DedupeLoop(_, _)
DedupeLoop(dd, rs) ==
    IF rs = <<>> THEN dd ELSE DedupeLoop(DedupeIter(dd, Head(rs)), Tail(rs))

\* a record built without the key 'place_id' carries this in its place
\* (the serial ids of places start at 1)
NoPlaceId == 0

\* reform['place_id'] raises KeyError: the loop reaches a record that has a
\* reform type (so is not skipped) and lacks the key
KeyError(rs) ==
    \E i \in 1..Len(rs) :
        normalize_reform_type_ids(rs[i]) # {} /\ rs[i].place_id = NoPlaceId

\* list(deduped.values())
_dedupe_reforms(rs) ==
    LET dd == DedupeLoop(<<>>, rs) IN [i \in 1..Len(dd) |-> dd[i].rec]

----------------------------------------------------------------------------
(* Input records of the callers (obi.py, mercatus.py, centerforbuilding.py, *)
(* prn_state_legislation.py, bill_submission_processor.py)                 *)

Rec(place, doc, date, status, types, scope, land_use, requirements, summary, notes) ==
    [ place_id |-> place, reform_type_ids |-> types, policy_document_id |-> doc,
      status |-> status, scope |-> scope, land_use |-> land_use,
      adoption_date |-> date, summary |-> summary, requirements |-> requirements,
      notes |-> notes, reform_mechanism |-> None, reform_phase |-> None,
      legislative_number |-> IF doc = None THEN None ELSE Some("HB 1"),
      link_url |-> None ]

\* (policy_document_id, adoption_date, status) of the records offered
Idents ==
    { <<None, None, None>>,
      <<None, Some("2020-01-01"), Some("adopted")>>,
      <<Some(42), Some("2020-01-01"), Some("adopted")>>,
      <<Some(42), Some("2021-06-01"), None>>,
      <<Some(42), None, Some("proposed")>> }

\* (reform_type_ids, scope, land_use, requirements, summary, notes)
Payloads ==
    { <<{1}, Some({"A"}), Some({}), None, Some("s1"), Some("n1")>>,
      <<{2}, Some({"B"}), None, Some({"r"}), Some("s2"), None>> }

Inputs ==
    { Rec(1, k[1], k[2], k[3], p[1], p[2], p[3], p[4], p[5], p[6]) :
          k \in Idents, p \in Payloads }
    \cup { Rec(2, None, None, None, {1}, None, Some({"residential"}), None, Some("s1"), None),
           \* a record without reform types, which _dedupe_reforms skips
           Rec(1, None, None, None, {}, Some({"C"}), None, None, Some("s3"), None) }

RECURSIVE SeqsUpTo(_, _)
SeqsUpTo(S, n) ==
    IF n = 0 THEN {<<>>}
    ELSE LET shorter == SeqsUpTo(S, n - 1)
         IN  shorter \cup {Append(q, x) : q \in {t \in shorter : Len(t) = n - 1}, x \in S}

Batches == SeqsUpTo(Inputs, MaxBatch)

ENRICHMENT_VERSION == 1

\* enrichment_record of enrich_reform: the JSON object as a function of its
\* top-level keys, 'fields' being a function of the field names in turn
EnrichmentData ==
    { [version |-> ENRICHMENT_VERSION, model |-> "m1",
       fields |-> [summary |-> "ai summary"]] }

ReformTypeIds == {1, 2}

\* a table without rows, as a function from rows to their number of copies
NoRows == [r \in {} |-> 0]

\* bulk_upsert_places was not called yet
NoPlaceCall ==
    [ places |-> <<>>, pre |-> <<>>, created |-> 0, updated |-> 0,
      place_id_map |-> <<>> ]

\* run_enrichment was not called yet
NoRun == [pc |-> "idle", status |-> "none", reforms |-> <<>>, errors |-> {}]

\* no call of merge_duplicate_reforms under way
NoMerge ==
    [ pc |-> "idle", duplicate_reform_id |-> 0, target_reform_id |-> 0,
      enrichment_data |-> NoRows, reform_type_id |-> 0 ]

\* no call made yet on the enrichment side
NoCall ==
    [ fn |-> "none", reform_id |-> 0, target_reform_id |-> 0, reform_type_id |-> 0,
      enrichment_data |-> None, success |-> FALSE, error_msg |-> "" ]

----------------------------------------------------------------------------
(* bulk_upsert_reforms: existing-row lookup and partition *)

\* variant: the query always ends in "AND policy_document_id IS NULL"
FetchedIdsNullDocOnly(d) ==
    LET place_ids == {d[i].place_id : i \in 1..Len(d)}
    IN  { id \in DOMAIN reforms :
            /\ reforms[id].place_id \in place_ids
            /\ reforms[id].policy_document_id = None }

\* rows the check_sql query returns for the deduped batch d
FetchedIds(d) ==
    LET place_ids == {d[i].place_id : i \in 1..Len(d)}
        policy_doc_ids == {d[i].policy_document_id : i \in 1..Len(d)} \ {None}
    IN  { id \in DOMAIN reforms :
            /\ reforms[id].place_id \in place_ids
            /\ IF policy_doc_ids # {}
               THEN \/ reforms[id].policy_document_id \in policy_doc_ids
                    \/ reforms[id].policy_document_id = None
               ELSE reforms[id].policy_document_id = None }

\* the dicts the loop `existing_map[key] = row[0]` can build: the query has no
\* ORDER BY, so when several rows share a key any of them may be the last one
ExistingMaps(d) ==
    LET F == FetchedIds(d)
        K == {RowKey(reforms[id]) : id \in F}
        Of(k) == {id \in F : RowKey(reforms[id]) = k}
    IN  IF \A k \in K : Cardinality(Of(k)) = 1
        THEN {[k \in K |-> CHOOSE id \in F : RowKey(reforms[id]) = k]}
        ELSE {m \in [K -> F] : \A k \in K : m[k] \in Of(k)}

\* new_reforms
NewOf(d, m) == SelectSeq(d, LAMBDA r : PartitionKey(r) \notin DOMAIN m)

\* update_reforms
UpdatesOf(d, m) ==
    LET hits == SelectSeq(d, LAMBDA r : PartitionKey(r) \in DOMAIN m)
    IN  [i \in 1..Len(hits) |-> [id |-> m[PartitionKey(hits[i])], r |-> hits[i]]]

----------------------------------------------------------------------------
(* bulk_upsert_reforms: the statements that write *)

\* variant: the normalized comparison values are what gets inserted
InsertRowWithSentinels(r) ==
    [ place_id |-> r.place_id, policy_document_id |-> r.policy_document_id,
      status |-> Coalesce(r.status, Some(SentinelStatus)),
      scope |-> r.scope, land_use |-> r.land_use,
      adoption_date |-> DateParam(Coalesce(r.adoption_date, Some(SentinelDate))),
      summary |-> r.summary, requirements |-> r.requirements, notes |-> r.notes,
      reform_mechanism |-> r.reform_mechanism, reform_phase |-> r.reform_phase,
      legislative_number |-> r.legislative_number, link_url |-> r.link_url,
      ai_enriched_fields |-> None, ai_enrichment_version |-> None,
      ai_enriched_at |-> None ]

\* one tuple of `rows` as the INSERT stores it; the statement names no
\* enrichment column, so those take their NULL default
InsertRow(r) ==
    [ place_id |-> r.place_id, policy_document_id |-> r.policy_document_id,
      status |-> r.status, scope |-> r.scope, land_use |-> r.land_use,
      adoption_date |-> DateParam(r.adoption_date),
      summary |-> r.summary, requirements |-> r.requirements, notes |-> r.notes,
      reform_mechanism |-> r.reform_mechanism, reform_phase |-> r.reform_phase,
      legislative_number |-> r.legislative_number, link_url |-> r.link_url,
      ai_enriched_fields |-> None, ai_enrichment_version |-> None,
      ai_enriched_at |-> None ]

\* variant: the stored array is replaced by the incoming one
merge_arrays_update_overwrite(existing_arr, new_arr) ==
    IF FalsyArr(new_arr) THEN existing_arr ELSE new_arr

\* helper merge_arrays_update of the update loop
merge_arrays_update(existing_arr, new_arr) ==
    IF FalsyArr(existing_arr) THEN (IF FalsyArr(new_arr) THEN None ELSE new_arr)
    ELSE IF FalsyArr(new_arr) THEN existing_arr
    ELSE Some(Val(existing_arr) \cup Val(new_arr))

\* variant: update_sql also resets the three enrichment columns
UpdateRowClearingEnrichment(row, r) ==
    [ row EXCEPT
        !.policy_document_id = Coalesce(r.policy_document_id, @),
        !.scope = merge_arrays_update(row.scope, r.scope),
        !.land_use = merge_arrays_update(row.land_use, r.land_use),
        !.summary = Coalesce(r.summary, @),
        !.requirements = merge_arrays_update(row.requirements, r.requirements),
        !.notes = Coalesce(r.notes, @),
        !.reform_mechanism = Coalesce(r.reform_mechanism, @),
        !.reform_phase = Coalesce(r.reform_phase, @),
        !.legislative_number = Coalesce(r.legislative_number, @),
        !.link_url = Coalesce(r.link_url, @),
        !.adoption_date = Coalesce(DateParam(r.adoption_date), @),
        !.status = Coalesce(r.status, @),
        !.ai_enriched_fields = None,
        !.ai_enrichment_version = None,
        !.ai_enriched_at = None ]

\* the SELECT of the three arrays followed by update_sql, on the row `row`
UpdateRow(row, r) ==
    [ row EXCEPT
        !.policy_document_id = Coalesce(r.policy_document_id, @),
        !.scope = merge_arrays_update(row.scope, r.scope),
        !.land_use = merge_arrays_update(row.land_use, r.land_use),
        !.summary = Coalesce(r.summary, @),
        !.requirements = merge_arrays_update(row.requirements, r.requirements),
        !.notes = Coalesce(r.notes, @),
        !.reform_mechanism = Coalesce(r.reform_mechanism, @),
        !.reform_phase = Coalesce(r.reform_phase, @),
        !.legislative_number = Coalesce(r.legislative_number, @),
        !.link_url = Coalesce(r.link_url, @),
        !.adoption_date = Coalesce(DateParam(r.adoption_date), @),
        !.status = Coalesce(r.status, @) ]

\* the loop `for existing_id, r in update_reforms`; st = [tbl, ids, cnt]
RECURSIVE UpdateLoop(_, _)
UpdateLoop(st, ups) ==
    IF ups = <<>> THEN st
    ELSE LET u == Head(ups)
         IN  IF u.id \in DOMAIN st.tbl
             THEN UpdateLoop([ tbl |-> [st.tbl EXCEPT ![u.id] = UpdateRow(@, u.r)],
                               ids |-> Append(st.ids, u.id),
                               cnt |-> st.cnt + 1 ], Tail(ups))
             ELSE UpdateLoop(st, Tail(ups))

\* new_reform_id_map[key]: a later record with the same key overwrites an earlier one
NewReformId(key) ==
    LET I == {i \in 1..Len(new_reforms) :
                 i <= Len(all_reform_ids) /\ PartitionKey(new_reforms[i]) = key}
    IN  IF I = {} THEN None
        ELSE Some(all_reform_ids[CHOOSE i \in I : \A j \in I : j <= i])

\* variant: all_reform_ids (inserts first, then updates) returned as it is
FinalIdsInWriteOrder(d) ==
    [i \in 1..Len(d) |-> IF i <= Len(all_reform_ids) THEN Some(all_reform_ids[i])
                         ELSE None]

\* the loop that builds final_reform_ids, in the order of deduped
FinalIds(d) ==
    [i \in 1..Len(d) |->
        LET key == PartitionKey(d[i])
        IN  IF key \in DOMAIN existing_map THEN Some(existing_map[key])
            ELSE NewReformId(key)]

\* reform_type_relationships
TypeRelationships(ids, d) ==
    UNION { {<<Val(ids[i]), t>> : t \in d[i].reform_type_ids} :
              i \in {j \in 1..Len(d) : ids[j] # None} }

\* variant: the links of the reforms concerned are deleted and written anew
bulk_replace_reform_reform_types(table, relationships) ==
    {p \in table : \A q \in relationships : q[1] # p[1]} \cup relationships

\* INSERT ... ON CONFLICT (reform_id, reform_type_id) DO NOTHING; the conflict
\* target is the unique index on the pair, so the table is a set of pairs
bulk_upsert_reform_reform_types(table, relationships) == table \cup relationships

----------------------------------------------------------------------------
(* State machine *)

Init ==
    /\ reforms = <<>>
    /\ reform_reform_types = {}
    /\ nextId = 1
    /\ pc = "idle"
    /\ batch = <<>>
    /\ deduped = <<>>
    /\ existing_map = <<>>
    /\ new_reforms = <<>>
    /\ update_reforms = <<>>
    /\ all_reform_ids = <<>>
    /\ created_count = 0
    /\ updated_count = 0
    /\ final_reform_ids = <<>>
    /\ calls = 0
    /\ enrichments = 0
    /\ lastBatch = <<>>
    /\ pre_reforms = <<>>
    /\ pre_types = {}
    /\ reform_sources = {}
    /\ reform_citations = NoRows
    /\ pre_links = [sources |-> {}, citations |-> NoRows]
    /\ call = NoCall
    /\ failed = 0
    /\ run = NoRun
    /\ data_ingestion = <<>>
    /\ error = ""
    /\ places = <<>>
    /\ nextPlaceId = 1
    /\ place_call = NoPlaceCall
    /\ merge = NoMerge

\* no call of bulk_upsert_reforms is running: none was made, or the last one
\* returned or raised ("raised", "returned": so did the ingestion run around it;
\* "linked": its reforms were linked to their source)
AtRest ==
    pc \in {"idle", "done", "KeyError", "psycopg2.Error", "raised", "returned", "linked"}

\* bulk_upsert_reforms, from the call to the end of the partition loop
Begin(rs) ==
    /\ AtRest
    /\ calls < MaxCalls
    /\ calls' = calls + 1
    /\ batch' = rs
    /\ lastBatch' = batch
    /\ pre_reforms' = reforms
    /\ pre_types' = reform_reform_types
    /\ IF KeyError(rs)
       THEN \* _dedupe_reforms raises, and so does the call: nothing was written
            /\ deduped' = <<>>
            /\ existing_map' = <<>>
            /\ new_reforms' = <<>>
            /\ update_reforms' = <<>>
            /\ pc' = "KeyError"
       ELSE LET d == _dedupe_reforms(rs)
            IN  /\ deduped' = d
                /\ IF d = <<>>
                   THEN \* return 0, 0, [], []
                        /\ existing_map' = <<>>
                        /\ new_reforms' = <<>>
                        /\ update_reforms' = <<>>
                        /\ pc' = "done"
                   ELSE /\ \E m \in ExistingMaps(d) :
                              /\ existing_map' = m
                              /\ new_reforms' = NewOf(d, m)
                              /\ update_reforms' = UpdatesOf(d, m)
                        /\ pc' = "insert"
    /\ all_reform_ids' = <<>>
    /\ created_count' = 0
    /\ updated_count' = 0
    /\ final_reform_ids' = <<>>
    /\ UNCHANGED <<reforms, reform_reform_types, nextId, enrichments, enrichment_side>>

\* `if new_reforms:` the multi-row INSERT ... RETURNING id, (xmax = 0)
InsertNew ==
    /\ pc = "insert"
    /\ LET n == Len(new_reforms)
           ids == [i \in 1..n |-> nextId + i - 1]
       IN  /\ reforms' = [id \in DOMAIN reforms \cup {ids[i] : i \in 1..n} |->
                             IF id \in DOMAIN reforms THEN reforms[id]
                             ELSE InsertRow(new_reforms[id - nextId + 1])]
           /\ nextId' = nextId + n
           /\ created_count' = n
           /\ all_reform_ids' = all_reform_ids \o ids
    /\ pc' = "update"
    /\ UNCHANGED <<reform_reform_types, batch, deduped, existing_map, new_reforms,
                   update_reforms, updated_count, final_reform_ids, calls,
                   enrichments, lastBatch, pre_reforms, pre_types, enrichment_side>>

\* `if update_reforms:` the per-row SELECT and UPDATE, then conn.commit()
UpdateExisting ==
    /\ pc = "update"
    /\ LET st == UpdateLoop([tbl |-> reforms, ids |-> all_reform_ids,
                             cnt |-> updated_count], update_reforms)
       IN  /\ reforms' = st.tbl
           /\ all_reform_ids' = st.ids
           /\ updated_count' = st.cnt
    /\ pc' = "finalize"
    /\ UNCHANGED <<reform_reform_types, nextId, batch, deduped, existing_map,
                   new_reforms, update_reforms, created_count, final_reform_ids,
                   calls, enrichments, lastBatch, pre_reforms, pre_types,
                   enrichment_side>>

\* the result-ordering loops, the type links, and the return
Finalize ==
    /\ pc = "finalize"
    /\ LET ids == FinalIds(deduped)
       IN  /\ final_reform_ids' = ids
           /\ reform_reform_types' =
                  bulk_upsert_reform_reform_types(reform_reform_types,
                                                  TypeRelationships(ids, deduped))
    /\ pc' = "done"
    /\ UNCHANGED <<reforms, nextId, batch, deduped, existing_map, new_reforms,
                   update_reforms, all_reform_ids, created_count, updated_count,
                   calls, enrichments, lastBatch, pre_reforms, pre_types,
                   enrichment_side>>

\* update_reform_enrichment(cursor, reform_id, enrichment_data, reform_type_id),
\* committed by its caller; reform_type_id = 0 stands for None (`if reform_type_id:`)
Enrich(reform_id, enrichment_data, reform_type_id) ==
    /\ AtRest
    /\ enrichments < MaxEnrich
    /\ reform_id \in DOMAIN reforms
    /\ enrichments' = enrichments + 1
    /\ reforms' = [reforms EXCEPT ![reform_id] =
                      [@ EXCEPT !.ai_enriched_fields = Some(enrichment_data),
                                !.ai_enrichment_version = Some(ENRICHMENT_VERSION),
                                !.ai_enriched_at = Some(enrichments + 1)]]
    /\ reform_reform_types' =
           IF reform_type_id # 0 /\ <<reform_id, reform_type_id>> \notin reform_reform_types
           THEN reform_reform_types \cup {<<reform_id, reform_type_id>>}
           ELSE reform_reform_types
    /\ pc' = "idle"
    /\ call' = [ fn |-> "update_reform_enrichment", reform_id |-> reform_id,
                 target_reform_id |-> 0, reform_type_id |-> reform_type_id,
                 enrichment_data |-> Some(enrichment_data),
                 success |-> TRUE, error_msg |-> "" ]
    /\ UNCHANGED <<nextId, batch, calls, lastBatch, pre_reforms, pre_types, locals,
                   reform_sources, reform_citations, pre_links, failed, driver_side>>

Next ==
    \/ \E rs \in Batches : Begin(rs)
    \/ InsertNew
    \/ UpdateExisting
    \/ Finalize
    \/ \E id \in DOMAIN reforms, e \in EnrichmentData, t \in {0} \cup ReformTypeIds :
           Enrich(id, e, t)

Spec == Init /\ [][Next]_vars

----------------------------------------------------------------------------
(* bulk_upsert_reforms given malformed records, against a store that       *)
(* enforces uniqueness of the identity key and has another writer          *)

\* the store's uniqueness constraint on reforms: a row to insert has the
\* identity key (NULLs replaced by the sentinels) of a stored row or of
\* another row of the statement
UniqueViolation(tbl, rows) ==
    \/ \E i \in 1..Len(rows) : \E id \in DOMAIN tbl :
           RowKey(tbl[id]) = RowKey(InsertRow(rows[i]))
    \/ \E i, j \in 1..Len(rows) :
           i # j /\ RowKey(InsertRow(rows[i])) = RowKey(InsertRow(rows[j]))

FaultyInputs ==
    { \* no key 'place_id'
      Rec(NoPlaceId, None, Some("2020-01-01"), Some("adopted"), {1},
          Some({"A"}), None, None, Some("s1"), None),
      \* no reform type
      Rec(1, None, None, None, {}, Some({"C"}), None, None, Some("s3"), None),
      \* neither
      Rec(NoPlaceId, None, None, None, {}, None, None, None, Some("s3"), None),
      Rec(1, None, Some("2020-01-01"), Some("adopted"), {1},
          Some({"A"}), None, None, Some("s1"), None),
      Rec(1, Some(42), Some("2021-06-01"), None, {2},
          Some({"B"}), None, Some({"r"}), Some("s2"), None),
      Rec(2, None, None, None, {1}, None, Some({"residential"}), None, Some("s1"), None) }

FaultyBatches == SeqsUpTo(FaultyInputs, MaxBatch)

\* another writer, between the existing-row query of the running call and
\* its INSERT, commits a row with the identity of a record the call is about
\* to insert
ConcurrentInsert(i) ==
    /\ pc = "insert"
    /\ i \in 1..Len(new_reforms)
    /\ ~UniqueViolation(reforms, new_reforms)
    /\ reforms' = [id \in DOMAIN reforms \cup {nextId} |->
                      IF id = nextId THEN InsertRow(new_reforms[i]) ELSE reforms[id]]
    /\ nextId' = nextId + 1
    /\ UNCHANGED <<reform_reform_types, pc, batch, calls, enrichments, lastBatch,
                   pre_reforms, pre_types, locals, enrichment_side>>

\* the INSERT when the store accepts every row
InsertAccepted ==
    /\ ~UniqueViolation(reforms, new_reforms)
    /\ InsertNew

\* the INSERT when the store rejects a row: `except psycopg2.Error` logs and
\* re-raises, so the call ends there and none of its rows is stored; the
\* serial sequence keeps the values the statement drew before it failed
InsertRejected ==
    /\ pc = "insert"
    /\ UniqueViolation(reforms, new_reforms)
    /\ \E k \in 1..Len(new_reforms) : nextId' = nextId + k
    /\ pc' = "psycopg2.Error"
    /\ UNCHANGED <<reforms, reform_reform_types, batch, calls, enrichments, lastBatch,
                   pre_reforms, pre_types, locals, enrichment_side>>

NextFaults ==
    \/ \E rs \in FaultyBatches : Begin(rs)
    \/ \E i \in 1..MaxBatch : ConcurrentInsert(i)
    \/ InsertAccepted
    \/ InsertRejected
    \/ UpdateExisting
    \/ Finalize

SpecFaults == Init /\ [][NextFaults]_vars

----------------------------------------------------------------------------
(* merge_duplicate_reforms.  Its statements are taken to succeed: the       *)
(* branch `except Exception: return False` needs a store error.  The JSON   *)
(* column ai_enriched_fields is read back as the object that was dumped.    *)

\* `x or y` on nullable arrays: None and [] are falsy
OrArr(x, y) == IF FalsyArr(x) THEN y ELSE x

\* `x or y` on nullable strings: None and '' are falsy
OrStr(x, y) == IF x = None \/ Val(x) = "" THEN y ELSE x

\* `x or y` on nullable ids: None and 0 are falsy
OrInt(x, y) == IF x = None \/ Val(x) = 0 THEN y ELSE x

\* truthiness of a nullable JSON object: None and {} are falsy
TruthyDict(x) == x # None /\ DOMAIN Val(x) # {}

\* the dict written to the target: target_ai_data after the merge of the AI
\* fields, {} when there is nothing to write
MergedAiData(target_ai_data, duplicate_ai_data_from_db, enrichment_data) ==
    LET target0 == IF TruthyDict(target_ai_data) THEN Val(target_ai_data) ELSE NoRows
        duplicate_ai_data == IF TruthyDict(duplicate_ai_data_from_db)
                             THEN Val(duplicate_ai_data_from_db)
                             ELSE enrichment_data
    IN  IF DOMAIN duplicate_ai_data # {} /\ "fields" \in DOMAIN duplicate_ai_data
        THEN LET fields0 == IF "fields" \in DOMAIN target0 THEN target0["fields"]
                            ELSE NoRows
                 \* keys of the duplicate that the target lacks are added
                 fields1 == fields0 @@ duplicate_ai_data["fields"]
             IN  ("fields" :> fields1) @@ target0
        ELSE target0

\* the UPDATE of the target row: COALESCE(merged value, stored value)
MergeTargetRow(target_reform, duplicate_reform, enrichment_data, now) ==
    LET target_ai_data == MergedAiData(target_reform.ai_enriched_fields,
                                       duplicate_reform.ai_enriched_fields,
                                       enrichment_data)
        written == DOMAIN target_ai_data # {}
    IN  [ target_reform EXCEPT
            !.ai_enriched_fields = IF written THEN Some(target_ai_data) ELSE @,
            !.ai_enrichment_version = IF written THEN Some(ENRICHMENT_VERSION) ELSE @,
            !.ai_enriched_at = IF written THEN Some(now) ELSE @,
            !.scope = Coalesce(OrArr(duplicate_reform.scope, @), @),
            !.land_use = Coalesce(OrArr(duplicate_reform.land_use, @), @),
            !.summary = Coalesce(OrStr(duplicate_reform.summary, @), @),
            !.requirements = Coalesce(OrArr(duplicate_reform.requirements, @), @),
            !.notes = Coalesce(OrStr(duplicate_reform.notes, @), @),
            !.link_url = Coalesce(OrStr(duplicate_reform.link_url, @), @),
            !.policy_document_id = Coalesce(OrInt(duplicate_reform.policy_document_id, @), @),
            !.legislative_number = Coalesce(OrStr(duplicate_reform.legislative_number, @), @),
            !.reform_mechanism = Coalesce(OrStr(duplicate_reform.reform_mechanism, @), @),
            !.reform_phase = Coalesce(OrStr(duplicate_reform.reform_phase, @), @) ]

\* the source rows of the duplicate whose source_id the target lacks,
\* inserted for the target
MergeSources(sources, duplicate_reform_id, target_reform_id) ==
    LET duplicate_sources == {x \in sources : x.reform_id = duplicate_reform_id}
        existing_source_ids ==
            {x.source_id : x \in {y \in sources : y.reform_id = target_reform_id}}
    IN  sources \cup { [x EXCEPT !.reform_id = target_reform_id] :
                          x \in {y \in duplicate_sources :
                                     y.source_id \notin existing_source_ids} }

\* (citation_url or '', citation_description or '')
citation_key(c) ==
    << IF c.citation_url = None THEN "" ELSE Val(c.citation_url),
       IF c.citation_description = None THEN "" ELSE Val(c.citation_description) >>

\* rows of a table (row -> copies) that belong to a reform
RowsOf(tbl, reform_id) == {c \in DOMAIN tbl : c.reform_id = reform_id}

\* tbl after the rows of `copied`, re-addressed to the target, were inserted
\* (one INSERT per fetched copy)
InsertCopies(tbl, copied, target_reform_id) ==
    LET moved(c) == [c EXCEPT !.reform_id = target_reform_id]
        added == {moved(c) : c \in copied}
        From(r) == CHOOSE c \in copied : moved(c) = r
    IN  [ r \in DOMAIN tbl \cup added |->
            (IF r \in DOMAIN tbl THEN tbl[r] ELSE 0)
            + (IF r \in added THEN tbl[From(r)] ELSE 0) ]

\* variant: every citation of the duplicate is copied
MergeCitationsUnchecked(citations, duplicate_reform_id, target_reform_id) ==
    InsertCopies(citations, RowsOf(citations, duplicate_reform_id), target_reform_id)

\* the citations of the duplicate whose key the target lacks, inserted for
\* the target
MergeCitations(citations, duplicate_reform_id, target_reform_id) ==
    LET existing_citations ==
            {citation_key(c) : c \in RowsOf(citations, target_reform_id)}
    IN  InsertCopies(citations,
                     {c \in RowsOf(citations, duplicate_reform_id) :
                          citation_key(c) \notin existing_citations},
                     target_reform_id)

\* variant: the reform_type_id argument is not added
MergeTypesOfDuplicateOnly(types, duplicate_reform_id, target_reform_id, reform_type_id) ==
    types \cup {<<target_reform_id, p[2]>> : p \in {q \in types : q[1] = duplicate_reform_id}}

\* the reform types of the duplicate, then the reform_type_id argument
\* (`if reform_type_id:`), linked to the target where missing
MergeTypes(types, duplicate_reform_id, target_reform_id, reform_type_id) ==
    types
    \cup {<<target_reform_id, p[2]>> : p \in {q \in types : q[1] = duplicate_reform_id}}
    \cup (IF reform_type_id # 0 THEN {<<target_reform_id, reform_type_id>>} ELSE {})

\* variant: the DELETE is left out
DeleteNothing(db, duplicate_reform_id) == db

\* DELETE FROM reforms WHERE id = duplicate_reform_id, with the cascade on
\* reform_sources, reform_citations and reform_reform_types
DeleteDuplicate(db, duplicate_reform_id) ==
    [ reforms   |-> [id \in DOMAIN db.reforms \ {duplicate_reform_id} |-> db.reforms[id]],
      types     |-> {p \in db.types : p[1] # duplicate_reform_id},
      sources   |-> {x \in db.sources : x.reform_id # duplicate_reform_id},
      citations |-> [c \in DOMAIN db.citations \ RowsOf(db.citations, duplicate_reform_id)
                        |-> db.citations[c]] ]

\* variant: only the duplicate row is looked for
LocatedDuplicateOnly(tbl, duplicate_reform_id, target_reform_id) ==
    duplicate_reform_id \in DOMAIN tbl

\* both SELECT * FROM reforms WHERE id = ... returned a row
Located(tbl, duplicate_reform_id, target_reform_id) ==
    duplicate_reform_id \in DOMAIN tbl /\ target_reform_id \in DOMAIN tbl

\* the function on the four tables db: the tables after it and its result
merge_duplicate_reforms(db, duplicate_reform_id, target_reform_id, enrichment_data, reform_type_id, now) ==
    IF ~Located(db.reforms, duplicate_reform_id, target_reform_id)
    THEN [db |-> db, result |-> FALSE]
    ELSE LET merged ==
                 [ reforms |->
                       IF target_reform_id \in DOMAIN db.reforms
                       THEN [db.reforms EXCEPT ![target_reform_id] =
                                MergeTargetRow(@, db.reforms[duplicate_reform_id],
                                               enrichment_data, now)]
                       ELSE db.reforms,
                   sources |-> MergeSources(db.sources, duplicate_reform_id,
                                            target_reform_id),
                   citations |-> MergeCitations(db.citations, duplicate_reform_id,
                                                target_reform_id),
                   types |-> MergeTypes(db.types, duplicate_reform_id,
                                        target_reform_id, reform_type_id) ]
         IN  [db |-> DeleteDuplicate(merged, duplicate_reform_id), result |-> TRUE]

\* a call of merge_duplicate_reforms (reform_type_id = 0 stands for None)
Merge(duplicate_reform_id, target_reform_id, enrichment_data, reform_type_id) ==
    /\ AtRest
    /\ LET out == merge_duplicate_reforms(
                      [reforms |-> reforms, types |-> reform_reform_types,
                       sources |-> reform_sources, citations |-> reform_citations],
                      duplicate_reform_id, target_reform_id, enrichment_data,
                      reform_type_id, enrichments + 1)
       IN  /\ reforms' = out.db.reforms
           /\ reform_reform_types' = out.db.types
           /\ reform_sources' = out.db.sources
           /\ reform_citations' = out.db.citations
           /\ call' = [ fn |-> "merge_duplicate_reforms",
                        reform_id |-> duplicate_reform_id,
                        target_reform_id |-> target_reform_id,
                        reform_type_id |-> reform_type_id,
                        enrichment_data |-> Some(enrichment_data),
                        success |-> out.result, error_msg |-> "" ]
    /\ pre_reforms' = reforms
    /\ pre_types' = reform_reform_types
    /\ pre_links' = [sources |-> reform_sources, citations |-> reform_citations]
    /\ pc' = "idle"
    /\ UNCHANGED <<nextId, batch, calls, enrichments, lastBatch, locals, failed,
                   driver_side>>

----------------------------------------------------------------------------
(* Stores the enrichment side starts from: reforms 1 and 2 of one place     *)
(* with one adoption date and status, told apart by policy_document_id,    *)
(* reform 3 of another place, and no reform 4                               *)

StoredRow(place, doc, scope, land_use, summary, notes, link_url, ai) ==
    [ place_id |-> place, policy_document_id |-> doc, status |-> Some("adopted"),
      scope |-> scope, land_use |-> land_use,
      adoption_date |-> Some(ToSqlDate("2020-01-01")),
      summary |-> summary, requirements |-> None, notes |-> notes,
      reform_mechanism |-> None, reform_phase |-> None,
      legislative_number |-> IF doc = None THEN None ELSE Some("HB 1"),
      link_url |-> link_url,
      ai_enriched_fields |-> ai,
      ai_enrichment_version |-> IF ai = None THEN None ELSE Some(ENRICHMENT_VERSION),
      ai_enriched_at |-> IF ai = None THEN None ELSE Some(0) ]

StoredBlobs ==
    << [version |-> ENRICHMENT_VERSION, model |-> "m1",
        fields |-> [summary |-> "ai summary", scope |-> "ai scope"]],
       [version |-> ENRICHMENT_VERSION, model |-> "m2",
        fields |-> [summary |-> "other summary", key_points |-> "kp"]] >>

\* rows without policy_document_id
NullDocRows ==
    { StoredRow(1, None, Some({"A"}), None, Some("s1"), None, Some("u1"), None),
      StoredRow(1, None, None, None, Some(""), None, None, Some(StoredBlobs[1])) }

\* rows with policy_document_id
DocRows ==
    { StoredRow(1, Some(42), Some({}), Some({"residential"}), Some("s2"), Some("n2"),
                None, Some(StoredBlobs[2])),
      StoredRow(1, Some(42), Some({"B"}), None, None, None, Some("u2"), None) }

Bystander == StoredRow(2, None, Some({"C"}), None, Some("s3"), None, None, None)

SourceRow(reform_id, source_id, reporter) ==
    [reform_id |-> reform_id, source_id |-> source_id, reporter |-> reporter]

CitationRow(reform_id, description, url, notes) ==
    [ reform_id |-> reform_id, citation_description |-> description,
      citation_url |-> url, citation_notes |-> notes ]

\* a set of rows as a table holding one copy of each
OneEach(rows) == [r \in rows |-> 1]

InitStore ==
    /\ \E r1 \in NullDocRows, r2 \in DocRows :
           reforms = (1 :> r1) @@ (2 :> r2) @@ (3 :> Bystander)
    /\ nextId = 4
    /\ \E t1 \in {{1}, {2}}, t2 \in {{2}, {1, 2}} :
           reform_reform_types =
               {<<1, t>> : t \in t1} \cup {<<2, t>> : t \in t2} \cup {<<3, 1>>}
    /\ \E s1 \in {{}, {10}}, s2 \in {{10}, {10, 20}} :
           reform_sources =
               {SourceRow(1, x, Some("reporter 1")) : x \in s1}
               \cup {SourceRow(2, x, None) : x \in s2}
               \cup {SourceRow(3, 10, None)}
    /\ \E c1 \in {{}, {CitationRow(1, Some("d"), None, Some("note 1"))}},
          c2 \in {{CitationRow(2, Some("d"), None, Some("note 2"))},
                  {CitationRow(2, Some("d"), None, Some("note 2")),
                   CitationRow(2, None, Some("http://x"), None)}} :
           reform_citations =
               OneEach(c1 \cup c2 \cup {CitationRow(3, Some("d"), None, None)})
    /\ pc = "idle"
    /\ batch = <<>>
    /\ deduped = <<>>
    /\ existing_map = <<>>
    /\ new_reforms = <<>>
    /\ update_reforms = <<>>
    /\ all_reform_ids = <<>>
    /\ created_count = 0
    /\ updated_count = 0
    /\ final_reform_ids = <<>>
    /\ calls = 0
    /\ enrichments = 0
    /\ lastBatch = <<>>
    /\ pre_reforms = reforms
    /\ pre_types = reform_reform_types
    /\ pre_links = [sources |-> reform_sources, citations |-> reform_citations]
    /\ call = NoCall
    /\ failed = 0
    /\ run = NoRun
    /\ data_ingestion = <<>>
    /\ error = ""
    /\ places = <<>>
    /\ nextPlaceId = 1
    /\ place_call = NoPlaceCall
    /\ merge = NoMerge

\* the ids offered to merge_duplicate_reforms: the two reforms with one
\* place, date and status, and the id of no row
MergeIds == {1, 2, 4}

\* enrichment_data as merge_duplicate_reforms may receive it
MergeData ==
    { [version |-> ENRICHMENT_VERSION, model |-> "m3",
       fields |-> [summary |-> "new summary", analysis |-> "an"]],
      NoRows }

\* reform_type_id as merge_duplicate_reforms may receive it: None, a type
\* one of the reforms has, a type neither has
MergeTypeIds == {0} \cup ReformTypeIds \cup {3}

\* loser and target are two reforms (the target is "a different
\* already-existing reform")
NextMerge ==
    \E d \in MergeIds, e \in MergeData, t \in MergeTypeIds :
        \E g \in MergeIds \ {d} : Merge(d, g, e, t)

SpecMerge == InitStore /\ [][NextMerge]_vars

----------------------------------------------------------------------------
(* update_reform_enrichment against a store that rejects a reform type for  *)
(* a reform when another reform of the same place, adoption date and status *)
(* carries it, and what run_enrichment does with the result                 *)

\* the INSERT of (reform_id, reform_type_id) raises UniqueViolation
TypeCollision(reform_id, reform_type_id) ==
    /\ reform_type_id # 0
    /\ <<reform_id, reform_type_id>> \notin reform_reform_types
    /\ \E o \in DOMAIN reforms \ {reform_id} :
           /\ reforms[o].place_id = reforms[reform_id].place_id
           /\ Coalesce(reforms[o].adoption_date, Some(ToSqlDate(SentinelDate)))
                  = Coalesce(reforms[reform_id].adoption_date, Some(ToSqlDate(SentinelDate)))
           /\ Coalesce(reforms[o].status, Some(SentinelStatus))
                  = Coalesce(reforms[reform_id].status, Some(SentinelStatus))
           /\ <<o, reform_type_id>> \in reform_reform_types

\* update_reform_enrichment returning (True, None, None)
EnrichAccepted(reform_id, enrichment_data, reform_type_id) ==
    /\ reform_id \in DOMAIN reforms
    /\ ~TypeCollision(reform_id, reform_type_id)
    /\ Enrich(reform_id, enrichment_data, reform_type_id)

\* update_reform_enrichment catching UniqueViolation and returning
\* (False, None, "MERGE_NEEDED: ..."); run_enrichment then rolls the
\* transaction back (the UPDATE of the enrichment columns with it), counts the
\* reform as failed and goes on to the next reform
EnrichRejected(reform_id, enrichment_data, reform_type_id) ==
    /\ AtRest
    /\ enrichments < MaxEnrich
    /\ reform_id \in DOMAIN reforms
    /\ TypeCollision(reform_id, reform_type_id)
    /\ enrichments' = enrichments + 1
    /\ failed' = failed + 1
    /\ call' = [ fn |-> "update_reform_enrichment", reform_id |-> reform_id,
                 target_reform_id |-> 0, reform_type_id |-> reform_type_id,
                 enrichment_data |-> Some(enrichment_data),
                 success |-> FALSE, error_msg |-> "MERGE_NEEDED" ]
    /\ pc' = "idle"
    /\ UNCHANGED <<reforms, reform_reform_types, nextId, batch, calls, lastBatch,
                   pre_reforms, pre_types, locals, reform_sources, reform_citations,
                   pre_links, driver_side>>

NextCollision ==
    \/ \E id \in DOMAIN reforms, e \in EnrichmentData, t \in {0} \cup ReformTypeIds :
           EnrichAccepted(id, e, t)
    \/ \E id \in DOMAIN reforms, e \in EnrichmentData, t \in {0} \cup ReformTypeIds :
           EnrichRejected(id, e, t)

SpecCollision == InitStore /\ [][NextCollision]_vars

----------------------------------------------------------------------------
(* _dedupe_reforms on its own: the function applied to every batch of up   *)
(* to MaxDedupeBatch records drawn from DedupeInputs                       *)

RecD(place, k, v) ==
    [ place_id |-> place, reform_type_ids |-> v[1], policy_document_id |-> k[1],
      status |-> k[3], scope |-> v[2], land_use |-> v[3],
      adoption_date |-> k[2], summary |-> v[4], requirements |-> v[5],
      notes |-> v[6], reform_mechanism |-> v[7], reform_phase |-> v[8],
      legislative_number |-> v[9], link_url |-> v[10] ]

\* (policy_document_id, adoption_date, status), the sentinel values included
DedupeIdents ==
    { <<None, None, None>>,
      <<None, Some(SentinelDate), None>>,
      <<None, None, Some(SentinelStatus)>>,
      <<None, Some("2020-01-01"), None>>,
      <<None, Some("2020-01-01"), Some("adopted")>>,
      <<Some(42), Some("2020-01-01"), None>>,
      <<Some(42), Some("2021-06-01"), Some("proposed")>> }

\* (reform_type_ids, scope, land_use, summary, requirements, notes,
\*  reform_mechanism, reform_phase, legislative_number, link_url)
DedupePayloads ==
    { <<{1}, None, Some({}), None, None, None, None, None, None, None>>,
      <<{1}, Some({"Downtown"}), Some({"residential"}), Some("s1"), None,
        Some("n1"), Some("m1"), None, Some("HB 1"), None>>,
      <<{2}, Some({"Citywide"}), None, Some("s2"), Some({"r"}),
        None, Some("m2"), Some("p2"), None, Some("u2")>> }

DedupeInputs ==
    { RecD(1, k, v) : k \in DedupeIdents, v \in DedupePayloads }
    \cup { RecD(2, <<None, None, None>>,
                <<{2}, Some({"Citywide"}), None, Some("s2"), Some({"r"}),
                  None, Some("m2"), Some("p2"), None, Some("u2")>>),
           RecD(1, <<None, None, None>>,
                <<{}, Some({"C"}), None, Some("s3"), None,
                  None, None, None, None, None>>) }

InitDedupe ==
    /\ batch \in SeqsUpTo(DedupeInputs, MaxDedupeBatch)
    /\ pc = "dedupe"
    /\ reforms = <<>>
    /\ reform_reform_types = {}
    /\ nextId = 1
    /\ deduped = <<>>
    /\ existing_map = <<>>
    /\ new_reforms = <<>>
    /\ update_reforms = <<>>
    /\ all_reform_ids = <<>>
    /\ created_count = 0
    /\ updated_count = 0
    /\ final_reform_ids = <<>>
    /\ calls = 0
    /\ enrichments = 0
    /\ lastBatch = <<>>
    /\ pre_reforms = <<>>
    /\ pre_types = {}
    /\ reform_sources = {}
    /\ reform_citations = NoRows
    /\ pre_links = [sources |-> {}, citations |-> NoRows]
    /\ call = NoCall
    /\ failed = 0
    /\ run = NoRun
    /\ data_ingestion = <<>>
    /\ error = ""
    /\ places = <<>>
    /\ nextPlaceId = 1
    /\ place_call = NoPlaceCall
    /\ merge = NoMerge

RunDedupe ==
    /\ pc = "dedupe"
    /\ deduped' = _dedupe_reforms(batch)
    /\ pc' = "deduped"
    /\ UNCHANGED <<reforms, reform_reform_types, nextId, batch, existing_map,
                   new_reforms, update_reforms, all_reform_ids, created_count,
                   updated_count, final_reform_ids, calls, enrichments, lastBatch,
                   pre_reforms, pre_types, enrichment_side>>

NextDedupe == RunDedupe

SpecDedupe == InitDedupe /\ [][NextDedupe]_vars

----------------------------------------------------------------------------
(* Vocabulary of the properties *)

\* adoption_date / status with NULL replaced by its sentinel
NormDate(x) == IF x = None THEN SentinelDate ELSE Val(x)

NormStatus(x) == IF x = None THEN SentinelStatus ELSE Val(x)

\* two input records denote the same reform
SameIdentity(a, b) ==
    /\ a.place_id = b.place_id
    /\ \/ /\ a.policy_document_id # None
          /\ a.policy_document_id = b.policy_document_id
       \/ /\ a.policy_document_id = None
          /\ b.policy_document_id = None
          /\ NormDate(a.adoption_date) = NormDate(b.adoption_date)
          /\ NormStatus(a.status) = NormStatus(b.status)

\* positions of the batch records that carry at least one reform type
Typed(rs) == {i \in 1..Len(rs) : rs[i].reform_type_ids # {}}

\* positions of the typed batch records merged into the deduplicated record r
Group(rs, r) == {i \in Typed(rs) : SameIdentity(rs[i], r)}

Last(I) == CHOOSE i \in I : \A j \in I : j <= i

\* C7: intra-batch scalar tie-break.  Every scalar field of a merged record
\* equals the value of the last record of its group, in iteration order, that
\* has the field non-null, and is null only if every record of the group has
\* it null.
C7_LastNonNullWins ==
    pc = "deduped" =>
        \A j \in 1..Len(deduped) : \A f \in ScalarFields :
            LET NN == {i \in Group(batch, deduped[j]) : batch[i][f] # None}
            IN  deduped[j][f] = IF NN = {} THEN None ELSE batch[Last(NN)][f]

\* three records merged into one: some field is overwritten by a later,
\* different non-null value, some field keeps an earlier value because the
\* later records have it null, and some field is null in all three
C7_Witness ==
    /\ pc = "deduped"
    /\ Len(deduped) = 1
    /\ Group(batch, deduped[1]) = {1, 2, 3}
    /\ \E f \in ScalarFields :
           /\ batch[1][f] # None /\ batch[3][f] # None
           /\ batch[1][f] # batch[3][f]
           /\ deduped[1][f] = batch[3][f]
    /\ \E f \in ScalarFields :
           /\ batch[1][f] # None /\ batch[2][f] = None /\ batch[3][f] = None
           /\ deduped[1][f] = batch[1][f]
    /\ \E f \in ScalarFields :
           /\ batch[1][f] = None /\ batch[2][f] = None /\ batch[3][f] = None
           /\ deduped[1][f] = None

----------------------------------------------------------------------------
(* Properties of bulk_upsert_reforms on the store *)

SqlSentinelDate == ToSqlDate(SentinelDate)

\* two stored rows have the same identity key
SameRowIdentity(x, y) ==
    /\ x.place_id = y.place_id
    /\ \/ /\ x.policy_document_id # None
          /\ x.policy_document_id = y.policy_document_id
       \/ /\ x.policy_document_id = None
          /\ y.policy_document_id = None
          /\ Coalesce(x.adoption_date, Some(SqlSentinelDate))
                 = Coalesce(y.adoption_date, Some(SqlSentinelDate))
          /\ Coalesce(x.status, Some(SentinelStatus))
                 = Coalesce(y.status, Some(SentinelStatus))

\* the input record r has the identity key of the stored row
MatchesRow(r, row) ==
    /\ r.place_id = row.place_id
    /\ \/ /\ r.policy_document_id # None
          /\ r.policy_document_id = row.policy_document_id
       \/ /\ r.policy_document_id = None
          /\ row.policy_document_id = None
          /\ Coalesce(DateParam(r.adoption_date), Some(SqlSentinelDate))
                 = Coalesce(row.adoption_date, Some(SqlSentinelDate))
          /\ Coalesce(r.status, Some(SentinelStatus))
                 = Coalesce(row.status, Some(SentinelStatus))

\* ids of the rows, stored before the running call began, that r matches
Matched(r) == {id \in DOMAIN pre_reforms : MatchesRow(r, pre_reforms[id])}

Returned == pc = "done"

SameContent(x, y) ==
    /\ Members(x.scope) = Members(y.scope)
    /\ Members(x.land_use) = Members(y.land_use)
    /\ Members(x.requirements) = Members(y.requirements)
    /\ [x EXCEPT !.scope = None, !.land_use = None, !.requirements = None]
           = [y EXCEPT !.scope = None, !.land_use = None, !.requirements = None]

C4_IdentityPriority ==
    pc \in {"insert", "update", "finalize", "done"} =>
        \A i \in 1..Len(deduped) :
            LET r == deduped[i]
                same == {id \in DOMAIN pre_reforms :
                            /\ pre_reforms[id].place_id = r.place_id
                            /\ pre_reforms[id].policy_document_id = r.policy_document_id}
            IN  (r.policy_document_id # None /\ same # {}) =>
                    /\ \E u \in 1..Len(update_reforms) :
                           update_reforms[u].r = r /\ update_reforms[u].id \in same
                    /\ \A n \in 1..Len(new_reforms) : new_reforms[n] # r
                    /\ \A id \in DOMAIN reforms \ DOMAIN pre_reforms :
                           ~(/\ reforms[id].place_id = r.place_id
                             /\ reforms[id].policy_document_id = r.policy_document_id)

\* a returned call that updated a row with the record's policy_document_id
\* although the row's adoption_date and status both differed from the record's
C4_Witness ==
    /\ Returned
    /\ created_count = 0
    /\ \E i \in 1..Len(deduped) : \E id \in DOMAIN pre_reforms :
           /\ deduped[i].policy_document_id # None
           /\ pre_reforms[id].policy_document_id = deduped[i].policy_document_id
           /\ pre_reforms[id].place_id = deduped[i].place_id
           /\ deduped[i].adoption_date # None
           /\ pre_reforms[id].adoption_date # None
           /\ pre_reforms[id].adoption_date # DateParam(deduped[i].adoption_date)
           /\ pre_reforms[id].status # deduped[i].status
           /\ final_reform_ids[i] = Some(id)

\* the row a deduplicated record was written to, as the call reports it
RowOf(i) == reforms[Val(final_reform_ids[i])]

\* C5: a record whose identity key matches a row persisted by an earlier
\* batch is counted as updated and not created (so 0 created, 1 updated for a
\* single such record), no row is created for it, and the stored row's scope,
\* land_use and requirements each become the union of the stored members and
\* the incoming members.
C5_CrossBatchUpdate ==
    Returned =>
        LET hit == {i \in 1..Len(deduped) : Matched(deduped[i]) # {}}
        IN  /\ updated_count = Cardinality(hit)
            /\ created_count = Len(deduped) - Cardinality(hit)
            /\ Cardinality(DOMAIN reforms) = Cardinality(DOMAIN pre_reforms) + created_count
            /\ \A i \in hit :
                   /\ final_reform_ids[i] # None
                   /\ Val(final_reform_ids[i]) \in Matched(deduped[i])
                   /\ \A id \in Matched(deduped[i]) :
                          /\ Members(reforms[id].scope)
                                 = Members(pre_reforms[id].scope) \cup Members(deduped[i].scope)
                          /\ Members(reforms[id].land_use)
                                 = Members(pre_reforms[id].land_use) \cup Members(deduped[i].land_use)
                          /\ Members(reforms[id].requirements)
                                 = Members(pre_reforms[id].requirements)
                                       \cup Members(deduped[i].requirements)

\* reform X (no date, no status, scope A) stored by a first batch, reform Y
\* (same key, scope B) arriving alone in a second one: 0 created, 1 updated,
\* scope {A, B}
C5_Witness ==
    /\ Returned
    /\ calls = 2
    /\ Len(batch) = 1
    /\ batch[1].policy_document_id = None
    /\ batch[1].adoption_date = None
    /\ batch[1].status = None
    /\ batch[1].scope = Some({"B"})
    /\ created_count = 0
    /\ updated_count = 1
    /\ \E id \in DOMAIN pre_reforms :
           /\ pre_reforms[id].scope = Some({"A"})
           /\ final_reform_ids = <<Some(id)>>
           /\ reforms[id].scope = Some({"A", "B"})

InCall == pc \in {"insert", "update", "finalize", "done"}

\* C8: enrichment immunity.  At every point of a bulk_upsert_reforms call,
\* every row that existed when the call began still exists with the
\* ai_enriched_fields, ai_enrichment_version and ai_enriched_at it had, and
\* once the call has returned every updated row carries the incoming scope.
C8_EnrichmentImmunity ==
    InCall =>
        /\ \A id \in DOMAIN pre_reforms :
               /\ id \in DOMAIN reforms
               /\ reforms[id].ai_enriched_fields = pre_reforms[id].ai_enriched_fields
               /\ reforms[id].ai_enrichment_version = pre_reforms[id].ai_enrichment_version
               /\ reforms[id].ai_enriched_at = pre_reforms[id].ai_enriched_at
        /\ Returned =>
               \A u \in 1..Len(update_reforms) :
                   Members(update_reforms[u].r.scope)
                       \subseteq Members(reforms[update_reforms[u].id].scope)

\* an enriched row re-ingested with a scope it did not have: the scope grew,
\* the enrichment is as it was
C8_Witness ==
    /\ Returned
    /\ \E u \in 1..Len(update_reforms) :
           LET id == update_reforms[u].id
           IN  /\ pre_reforms[id].ai_enriched_fields # None
               /\ pre_reforms[id].ai_enrichment_version = Some(ENRICHMENT_VERSION)
               /\ Members(pre_reforms[id].scope) # Members(reforms[id].scope)
               /\ Members(update_reforms[u].r.scope) \subseteq Members(reforms[id].scope)
               /\ reforms[id].ai_enriched_fields = pre_reforms[id].ai_enriched_fields

\* C9: sentinel values never reach storage.  A record with a NULL
\* adoption_date or status is inserted with NULL in that column, an update
\* with a NULL incoming adoption_date or status leaves the stored value of
\* that column as it was, and (no input carrying a sentinel value itself) no
\* stored row ever holds '1900-01-01' or ''.
C9_NoSentinelStored ==
    /\ \A id \in DOMAIN reforms :
           /\ reforms[id].adoption_date # Some(SqlSentinelDate)
           /\ reforms[id].status # Some(SentinelStatus)
    /\ Returned =>
           \A i \in 1..Len(deduped) :
               LET r == deduped[i]
                   id == Val(final_reform_ids[i])
               IN  IF Matched(r) = {}
                   THEN /\ id \notin DOMAIN pre_reforms
                        /\ r.adoption_date = None => reforms[id].adoption_date = None
                        /\ r.status = None => reforms[id].status = None
                   ELSE /\ id \in DOMAIN pre_reforms
                        /\ r.adoption_date = None =>
                               reforms[id].adoption_date = pre_reforms[id].adoption_date
                        /\ r.status = None => reforms[id].status = pre_reforms[id].status

\* one call that inserted a record without date and status as a row with
\* NULLs and updated a dated row with a record that has no date
C9_Witness ==
    /\ Returned
    /\ \E i, j \in 1..Len(deduped) :
           /\ Matched(deduped[i]) = {}
           /\ deduped[i].adoption_date = None /\ deduped[i].status = None
           /\ RowOf(i).adoption_date = None /\ RowOf(i).status = None
           /\ Matched(deduped[j]) # {}
           /\ deduped[j].adoption_date = None
           /\ RowOf(j).adoption_date # None

C11_TypeTagging ==
    Returned =>
        /\ \A i \in 1..Len(deduped) :
               /\ final_reform_ids[i] # None
               /\ \A t \in deduped[i].reform_type_ids :
                      <<Val(final_reform_ids[i]), t>> \in reform_reform_types
        /\ pre_types \subseteq reform_reform_types
        /\ \A p \in reform_reform_types \ pre_types :
               \E i \in 1..Len(deduped) :
                   /\ final_reform_ids[i] = Some(p[1])
                   /\ p[2] \in deduped[i].reform_type_ids

\* a call that updated a reform tagged with one type by a record that carries
\* another type and inserted a second reform: the old pair stays, the new
\* pairs are added
C11_Witness ==
    /\ Returned
    /\ created_count = 1
    /\ updated_count = 1
    /\ \E i \in 1..Len(deduped) : \E t \in ReformTypeIds :
           /\ final_reform_ids[i] # None
           /\ <<Val(final_reform_ids[i]), t>> \in pre_types
           /\ t \notin deduped[i].reform_type_ids
           /\ <<Val(final_reform_ids[i]), t>> \in reform_reform_types
           /\ \E u \in deduped[i].reform_type_ids :
                  <<Val(final_reform_ids[i]), u>> \in reform_reform_types \ pre_types

----------------------------------------------------------------------------
(* Properties of bulk_upsert_reforms on faulty input and a rejecting store *)

\* positions of the batch records that lack place_id or have no reform type
Malformed(rs) ==
    {i \in 1..Len(rs) : rs[i].place_id = NoPlaceId \/ rs[i].reform_type_ids = {}}

\* C12: a call whose batch holds a malformed record (no place_id, or an
\* empty reform type set) does not raise: it returns, and every well-formed
\* record of the batch is then persisted in a row with its identity.
C12_MalformedSkipped ==
    (pc \in {"done", "KeyError"} /\ Malformed(batch) # {}) =>
        /\ pc = "done"
        /\ \A i \in (1..Len(batch)) \ Malformed(batch) :
               \E id \in DOMAIN reforms : MatchesRow(batch[i], reforms[id])

\* C13: a call whose INSERT the store rejected for uniqueness does not fail
\* (the rejection never ends the call), and once it has returned every
\* deduplicated record is persisted in a row with its identity.
C13_RejectionRecovered ==
    /\ pc # "psycopg2.Error"
    /\ Returned =>
           \A i \in 1..Len(deduped) :
               /\ final_reform_ids[i] # None
               /\ MatchesRow(deduped[i], RowOf(i))


----------------------------------------------------------------------------
(* Properties of merge_duplicate_reforms, checked under SpecMerge           *)

\* the last operation was a call of merge_duplicate_reforms
MergeCalled == call.fn = "merge_duplicate_reforms"

\* ... that returned True
MergeSucceeded == MergeCalled /\ call.success

TypesOf(types, reform_id) == {p[2] : p \in {q \in types : q[1] = reform_id}}

SourceIdsOf(sources, reform_id) ==
    {x.source_id : x \in {y \in sources : y.reform_id = reform_id}}

CitationKeysOf(citations, reform_id) ==
    {citation_key(c) : c \in RowsOf(citations, reform_id)}

\* C15: merge_duplicate_reforms returns True only after the loser row has
\* been deleted: after True the loser id is not in reforms and the target row
\* is still there under its id; after False a loser row that existed has not
\* been deleted.
C15_TrueOnlyAfterDelete ==
    MergeCalled =>
        /\ call.success =>
               /\ call.reform_id \notin DOMAIN reforms
               /\ call.target_reform_id \in DOMAIN pre_reforms
               /\ call.target_reform_id \in DOMAIN reforms
        /\ ~call.success =>
               (call.reform_id \in DOMAIN pre_reforms
                    => call.reform_id \in DOMAIN reforms)

C15_Witness ==
    /\ MergeSucceeded
    /\ call.reform_id \in DOMAIN pre_reforms
    /\ call.reform_id \notin DOMAIN reforms
    /\ call.target_reform_id \in DOMAIN reforms

\* C16: when the target row does not exist at the call, the merge returns
\* False, the loser row is not deleted and none of reforms, reform_sources,
\* reform_citations and reform_reform_types is written.
C16_TargetMissing ==
    (MergeCalled /\ call.target_reform_id \notin DOMAIN pre_reforms) =>
        /\ ~call.success
        /\ reforms = pre_reforms
        /\ reform_reform_types = pre_types
        /\ reform_sources = pre_links.sources
        /\ reform_citations = pre_links.citations

C16_Witness ==
    /\ MergeCalled
    /\ call.target_reform_id \notin DOMAIN pre_reforms
    /\ call.reform_id \in DOMAIN reforms
    /\ ~call.success

\* C17: after a successful merge the target's reform types are the types it
\* had, the types of the loser and the reform_type_id of the call.
C17_TypeUnion ==
    MergeSucceeded =>
        TypesOf(reform_reform_types, call.target_reform_id)
            = TypesOf(pre_types, call.target_reform_id)
              \cup TypesOf(pre_types, call.reform_id)
              \cup (IF call.reform_type_id # 0 THEN {call.reform_type_id} ELSE {})

C17_Witness ==
    /\ MergeSucceeded
    /\ call.reform_type_id # 0
    /\ call.reform_type_id \notin TypesOf(pre_types, call.target_reform_id)
                                  \cup TypesOf(pre_types, call.reform_id)
    /\ TypesOf(pre_types, call.reform_id)
           \ TypesOf(pre_types, call.target_reform_id) # {}
    /\ TypesOf(reform_reform_types, call.reform_id) = {}

LoserEnrichment ==
    IF TruthyDict(pre_reforms[call.reform_id].ai_enriched_fields)
    THEN Val(pre_reforms[call.reform_id].ai_enriched_fields)
    ELSE Val(call.enrichment_data)

FieldsOf(blob) == IF "fields" \in DOMAIN blob THEN blob["fields"] ELSE NoRows

\* the target had enrichment: its keys keep their values and the keys only
\* the loser has are added
TargetKeysWin ==
    LET before == Val(pre_reforms[call.target_reform_id].ai_enriched_fields)
        after  == reforms[call.target_reform_id].ai_enriched_fields
    IN  /\ after # None
        /\ \A k \in DOMAIN FieldsOf(before) :
               k \in DOMAIN FieldsOf(Val(after))
               /\ FieldsOf(Val(after))[k] = FieldsOf(before)[k]
        /\ \A k \in DOMAIN FieldsOf(LoserEnrichment) \ DOMAIN FieldsOf(before) :
               k \in DOMAIN FieldsOf(Val(after))
               /\ FieldsOf(Val(after))[k] = FieldsOf(LoserEnrichment)[k]

\* the target had no enrichment: it takes the blob of the loser
LoserBlobTaken ==
    DOMAIN LoserEnrichment # {} =>
        reforms[call.target_reform_id].ai_enriched_fields = Some(LoserEnrichment)

\* C19: after a successful merge, a target that had enrichment keeps the value
\* of every key of its enrichment fields and gains the keys only the loser
\* has; a target that had none carries the enrichment blob of the loser.
C19_AiEnrichmentPolicy ==
    MergeSucceeded =>
        IF TruthyDict(pre_reforms[call.target_reform_id].ai_enriched_fields)
        THEN TargetKeysWin
        ELSE LoserBlobTaken

PlainFields ==
    { "scope", "land_use", "summary", "requirements", "notes", "link_url",
      "policy_document_id", "legislative_number", "reform_mechanism", "reform_phase" }

\* C20: after a successful merge each plain field of the target holds the
\* loser's value when that is non-null, else the value the target had.
C20_PlainFieldPolicy ==
    MergeSucceeded =>
        \A f \in PlainFields :
            reforms[call.target_reform_id][f]
                = IF pre_reforms[call.reform_id][f] # None
                  THEN pre_reforms[call.reform_id][f]
                  ELSE pre_reforms[call.target_reform_id][f]


----------------------------------------------------------------------------
(* Property of update_reform_enrichment and its handling in run_enrichment, *)
(* checked under SpecCollision                                              *)

\* C14: an enrichment update that collides with another reform is recovered
\* by merging the updated reform into that reform and deleting it; the update
\* is not reported as failed, the reform is not counted as failed and it is
\* not left in the store beside the reform it collides with.
C14_CollisionRecovered ==
    call.fn = "update_reform_enrichment" =>
        /\ call.success
        /\ failed = 0
        /\ call.reform_id \in DOMAIN reforms
               => ~TypeCollision(call.reform_id, call.reform_type_id)


ArrayFields == {"scope", "land_use", "requirements"}

\* C21: after a successful merge each array field of the target still holds
\* every member it held before the merge.
C21_ArraysNeverShrink ==
    MergeSucceeded =>
        \A f \in ArrayFields :
            Members(pre_reforms[call.target_reform_id][f])
                \subseteq Members(reforms[call.target_reform_id][f])


----------------------------------------------------------------------------
(* run_enrichment: the enrichment driver                                    *)

\* the policy documents whose bill_text is neither NULL nor ''
BillTexts == {42}

\* the members of a set of ids in ascending order
RECURSIVE Ascending(_)
Ascending(S) ==
    IF S = {} THEN <<>>
    ELSE LET m == CHOOSE x \in S : \A y \in S : x <= y
         IN  <<m>> \o Ascending(S \ {m})

\* find_unenriched_reforms without reform_id: the `limit` most recently
\* created reforms that are not enriched at `version` and whose policy
\* document has bill text, ordered by id
find_unenriched_reforms(tbl, version, limit) ==
    LET unenriched ==
            { id \in DOMAIN tbl :
                /\ \/ tbl[id].ai_enrichment_version = None
                   \/ Val(tbl[id].ai_enrichment_version) < version
                /\ tbl[id].policy_document_id # None
                /\ Val(tbl[id].policy_document_id) \in BillTexts }
        ranked_reforms ==
            { id \in unenriched : Cardinality({j \in unenriched : j > id}) < limit }
    IN  Ascending(ranked_reforms)

\* the stores a run starts from: three reforms of three places, each with or
\* without a policy document and with or without enrichment
InitRun ==
    /\ \E r1 \in NullDocRows \cup DocRows, r2 \in NullDocRows \cup DocRows,
          r3 \in NullDocRows \cup DocRows :
           reforms = (1 :> r1) @@ (2 :> [r2 EXCEPT !.place_id = 2])
                               @@ (3 :> [r3 EXCEPT !.place_id = 3])
    /\ nextId = 4
    /\ reform_reform_types = {<<1, 1>>, <<2, 1>>, <<3, 2>>}
    /\ reform_sources = {}
    /\ reform_citations = NoRows
    /\ pc = "idle"
    /\ batch = <<>>
    /\ deduped = <<>>
    /\ existing_map = <<>>
    /\ new_reforms = <<>>
    /\ update_reforms = <<>>
    /\ all_reform_ids = <<>>
    /\ created_count = 0
    /\ updated_count = 0
    /\ final_reform_ids = <<>>
    /\ calls = 0
    /\ enrichments = 0
    /\ lastBatch = <<>>
    /\ pre_reforms = reforms
    /\ pre_types = reform_reform_types
    /\ pre_links = [sources |-> {}, citations |-> NoRows]
    /\ call = NoCall
    /\ failed = 0
    /\ run = NoRun
    /\ data_ingestion = <<>>
    /\ error = ""
    /\ places = <<>>
    /\ nextPlaceId = 1
    /\ place_call = NoPlaceCall
    /\ merge = NoMerge

\* values of the argument `limit`
Limits == {1, 2, 3}

\* run_enrichment up to the query: the run row is created with status
\* 'running' and the reforms to enrich are fetched; `errors` are the reforms
\* for which enrich_reform would return an error
RunFind(limit, force, errors) ==
    /\ AtRest
    /\ run.pc = "idle"
    /\ LET version == IF force THEN 0 ELSE ENRICHMENT_VERSION
           found == find_unenriched_reforms(reforms, version, limit)
       IN  run' = [ pc |-> "found", status |-> "running", reforms |-> found,
                    errors |-> errors \cap {found[i] : i \in 1..Len(found)} ]
    /\ UNCHANGED <<reforms, reform_reform_types, nextId, pc, batch, calls, enrichments,
                   lastBatch, pre_reforms, pre_types, locals, reform_sources,
                   reform_citations, pre_links, call, failed, data_ingestion, error,
                   places, nextPlaceId, place_call,
                   merge>>

\* the statements after `if not reforms:`, which run whatever was found: the
\* run row is set to 'completed' and committed
RunCompleted ==
    /\ run.pc = "found"
    /\ run' = [run EXCEPT !.pc = "completed", !.status = "completed"]
    /\ UNCHANGED <<reforms, reform_reform_types, nextId, pc, batch, calls, enrichments,
                   lastBatch, pre_reforms, pre_types, locals, reform_sources,
                   reform_citations, pre_links, call, failed, data_ingestion, error,
                   places, nextPlaceId, place_call,
                   merge>>

\* `start_time` is no name of the module: the statement after the commit
\* raises NameError, the handler raises it again on its first statement
\* (before it could set the run to 'failed'), and the call ends with the
\* exception; the loop over the reforms is not entered
RunNameError ==
    /\ run.pc = "completed"
    /\ run' = [run EXCEPT !.pc = "NameError"]
    /\ UNCHANGED <<reforms, reform_reform_types, nextId, pc, batch, calls, enrichments,
                   lastBatch, pre_reforms, pre_types, locals, reform_sources,
                   reform_citations, pre_links, call, failed, data_ingestion, error,
                   places, nextPlaceId, place_call,
                   merge>>

NextRun ==
    \/ \E limit \in Limits, force \in BOOLEAN, errors \in SUBSET (1..3) :
           RunFind(limit, force, errors)
    \/ RunCompleted
    \/ RunNameError

SpecRun == InitRun /\ [][NextRun]_vars

----------------------------------------------------------------------------
(* Properties of run_enrichment, checked under SpecRun                      *)

\* the reforms found by the run
Found == {run.reforms[i] : i \in 1..Len(run.reforms)}

\* the store holds the enrichment of this version for the reform
Enriched(id) ==
    /\ id \in DOMAIN reforms
    /\ reforms[id].ai_enrichment_version = Some(ENRICHMENT_VERSION)

\* C22: the driver commits reform by reform: when processing a reform fails,
\* the reforms after it in the list are still processed, so at the end of the
\* run every reform that follows a failed one and does not fail itself holds
\* its committed enrichment.
C22_FailureIsolated ==
    run.pc = "NameError" =>
        \A i, j \in 1..Len(run.reforms) :
            (j < i /\ run.reforms[j] \in run.errors /\ run.reforms[i] \notin run.errors)
                => Enriched(run.reforms[i])

\* C30: when the run is marked 'completed', every reform found is enriched
\* and committed or counted as failed; the run is marked completed without
\* the loop only when no reform was found.
C30_AllProcessedBeforeCompleted ==
    run.status = "completed" =>
        /\ Cardinality({id \in Found : ~Enriched(id)}) <= failed
        /\ Found # {} => \E id \in Found : Enriched(id) \/ failed > 0


----------------------------------------------------------------------------
(* Transactions of bulk_upsert_reforms, checked under Spec                  *)

\* the committed store: the INSERT and the UPDATEs of a call are committed
\* by the conn.commit() that follows the update loop, the type links by the
\* conn.commit() of bulk_upsert_reform_reform_types
Committed ==
    IF pc \in {"insert", "update"}
    THEN [reforms |-> pre_reforms, types |-> pre_types]
    ELSE [reforms |-> reforms, types |-> reform_reform_types]

\* C23: one call of bulk_upsert_reforms is atomic: the committed store holds
\* either nothing of the call or its reform rows together with all its type
\* links.
C23_BatchAtomic ==
    pc \in {"update", "finalize", "done"} =>
        \/ Committed = [reforms |-> pre_reforms, types |-> pre_types]
        \/ TypeRelationships(FinalIds(deduped), deduped) \subseteq Committed.types


----------------------------------------------------------------------------
(* An ingestion run (ingest_prn_state_legislation) around the batches of    *)
(* bulk_upsert_reforms: its run-level row in data_ingestion                 *)

\* the records the run passes on: with place_id and reform types
IngestInputs ==
    { r \in FaultyInputs : r.place_id # NoPlaceId /\ normalize_reform_type_ids(r) # {} }

IngestBatches == SeqsUpTo(IngestInputs, MaxBatch)

\* log_ingestion: INSERT INTO data_ingestion ...; conn.commit()
log_ingestion(tbl, status, error_message) ==
    Append(tbl, [status |-> status, error_message |-> error_message])

\* reading the CSV file raises before any batch: the handler logs the failed
\* run on a connection whose transaction is intact, and re-raises
IngestReadFailed ==
    /\ pc = "idle"
    /\ calls = 0
    /\ error' = "FileNotFoundError"
    /\ data_ingestion' = log_ingestion(data_ingestion, "failed", "FileNotFoundError")
    /\ pc' = "raised"
    /\ UNCHANGED <<reforms, reform_reform_types, nextId, batch, calls, enrichments,
                   lastBatch, pre_reforms, pre_types, locals, reform_sources,
                   reform_citations, pre_links, call, failed, run, places,
                   nextPlaceId, place_call,
                   merge>>

\* the INSERT of bulk_upsert_reforms raises psycopg2.Error (the store rejects
\* a row, or the statement fails): the handler logs and re-raises, nothing of
\* the statement is stored and the transaction is left aborted
InsertFailed ==
    /\ pc = "insert"
    /\ new_reforms # <<>>
    /\ pc' = "psycopg2.Error"
    /\ UNCHANGED <<reforms, reform_reform_types, nextId, batch, calls, enrichments,
                   lastBatch, pre_reforms, pre_types, locals, enrichment_side>>

\* `except Exception` of the run: log_ingestion(status='failed') on the same
\* connection.  After a store error no rollback was issued, so the INSERT
\* INTO data_ingestion raises in the aborted transaction and `except
\* Exception: pass` swallows that; then `raise`
IngestExcept ==
    /\ pc \in {"KeyError", "psycopg2.Error"}
    /\ error' = pc
    /\ data_ingestion' = IF pc = "psycopg2.Error" THEN data_ingestion
                         ELSE log_ingestion(data_ingestion, "failed", pc)
    /\ pc' = "raised"
    /\ UNCHANGED <<reforms, reform_reform_types, nextId, batch, calls, enrichments,
                   lastBatch, pre_reforms, pre_types, locals, reform_sources,
                   reform_citations, pre_links, call, failed, run, places,
                   nextPlaceId, place_call,
                   merge>>

\* the batches are through: log_ingestion(status='success') and return
IngestLogged ==
    /\ pc = "done"
    /\ error' = ""
    /\ data_ingestion' = log_ingestion(data_ingestion, "success", "")
    /\ pc' = "returned"
    /\ UNCHANGED <<reforms, reform_reform_types, nextId, batch, calls, enrichments,
                   lastBatch, pre_reforms, pre_types, locals, reform_sources,
                   reform_citations, pre_links, call, failed, run, places,
                   nextPlaceId, place_call,
                   merge>>

NextIngest ==
    \/ \E rs \in IngestBatches : Begin(rs)
    \/ InsertNew
    \/ InsertFailed
    \/ UpdateExisting
    \/ Finalize
    \/ IngestReadFailed
    \/ IngestExcept
    \/ IngestLogged

SpecIngest == Init /\ [][NextIngest]_vars

\* C24: when an ingestion run ends with an exception, store errors of a
\* batch upsert included, the last row of data_ingestion is the run's row
\* with status 'failed' and the message of that exception.
C24_FailureLogged ==
    pc = "raised" =>
        /\ data_ingestion # <<>>
        /\ data_ingestion[Len(data_ingestion)]
               = [status |-> "failed", error_message |-> error]


----------------------------------------------------------------------------
(* bulk_link_reform_sources, called by the ingestion run after each batch   *)
(* with the ids and the deduplicated records bulk_upsert_reforms returned   *)

\* the source metadata a record may carry: reporter, source_url,
\* source_notes, is_primary
SourceMeta ==
    { [reporter |-> None, source_url |-> None, source_notes |-> None,
       is_primary |-> TRUE],
      [reporter |-> Some("r1"), source_url |-> Some("u1"), source_notes |-> None,
       is_primary |-> TRUE],
      [reporter |-> Some("r2"), source_url |-> None, source_notes |-> Some("n2"),
       is_primary |-> FALSE],
      [reporter |-> None, source_url |-> Some("u2"), source_notes |-> Some("n1"),
       is_primary |-> FALSE] }

\* the ids of table sources a short name resolves to
SourceIds == {10, 20}

\* rows_dict: one row per (reform_id, source_id), the first occurrence kept
rows_dict(reform_ids, metas, source_id) ==
    { [ reform_id |-> reform_ids[i], source_id |-> source_id,
        reporter |-> metas[i].reporter, source_url |-> metas[i].source_url,
        notes |-> metas[i].source_notes, is_primary |-> metas[i].is_primary ] :
      i \in { j \in 1..Len(reform_ids) :
                \A k \in 1..(j - 1) : reform_ids[k] # reform_ids[j] } }

SamePair(x, y) == x.reform_id = y.reform_id /\ x.source_id = y.source_id

\* variant: DO UPDATE SET reporter = EXCLUDED.reporter, ...
LinkConflictOverwrite(old, new) == new

\* ON CONFLICT (reform_id, source_id) DO UPDATE SET ... COALESCE(EXCLUDED.x,
\* reform_sources.x) ..., is_primary = EXCLUDED.is_primary
LinkConflict(old, new) ==
    [ old EXCEPT !.reporter = Coalesce(new.reporter, old.reporter),
                 !.source_url = Coalesce(new.source_url, old.source_url),
                 !.notes = Coalesce(new.notes, old.notes),
                 !.is_primary = new.is_primary ]

\* the INSERT ... ON CONFLICT of the rows into the table
bulk_link_reform_sources(tbl, rows) ==
    { x \in tbl : \A r \in rows : ~SamePair(x, r) }
    \cup { IF \E x \in tbl : SamePair(x, r)
           THEN LinkConflict(CHOOSE x \in tbl : SamePair(x, r), r)
           ELSE r : r \in rows }

\* one call, on the result of the bulk_upsert_reforms call that has returned
LinkSources(metas, source_id) ==
    /\ pc = "done"
    /\ final_reform_ids # <<>>
    /\ \A i \in 1..Len(final_reform_ids) : final_reform_ids[i] # None
    /\ Len(metas) = Len(deduped)
    /\ LET rows == rows_dict([i \in 1..Len(final_reform_ids) |-> Val(final_reform_ids[i])],
                             metas, source_id)
       IN  /\ reform_sources' = bulk_link_reform_sources(reform_sources, rows)
           /\ call' = [fn |-> "bulk_link_reform_sources", rows |-> rows]
    /\ pre_links' = [sources |-> reform_sources, citations |-> reform_citations]
    /\ pc' = "linked"
    /\ UNCHANGED <<reforms, reform_reform_types, nextId, batch, calls, enrichments,
                   lastBatch, pre_reforms, pre_types, locals, reform_citations, failed,
                   driver_side>>

NextLink ==
    \/ \E rs \in IngestBatches : Begin(rs)
    \/ InsertNew
    \/ UpdateExisting
    \/ Finalize
    \/ \E metas \in SeqsUpTo(SourceMeta, MaxBatch), source_id \in SourceIds :
           LinkSources(metas, source_id)

SpecLink == Init /\ [][NextLink]_vars

\* the row of a table for the (reform_id, source_id) of r
Linked(tbl, r) == {x \in tbl : SamePair(x, r)}

\* C25: after reforms were linked to a source, reform_sources holds exactly
\* one row for every pair linked, and where the pair was linked before, each
\* of reporter, source_url and notes is the incoming value when that is
\* non-null and the stored value otherwise.
C25_SourceLinkUpsert ==
    (pc = "linked" /\ call.fn = "bulk_link_reform_sources") =>
        /\ \A x, y \in reform_sources : SamePair(x, y) => x = y
        /\ \A r \in call.rows :
               /\ Cardinality(Linked(reform_sources, r)) = 1
               /\ \A old \in Linked(pre_links.sources, r) :
                      \A now \in Linked(reform_sources, r) :
                          \A f \in {"reporter", "source_url", "notes"} :
                              now[f] = IF r[f] # None THEN r[f] ELSE old[f]

\* a pair linked before is linked again with one field null where the stored
\* one is not, and another field non-null and different from the stored one
C25_Witness ==
    /\ pc = "linked"
    /\ call.fn = "bulk_link_reform_sources"
    /\ \E r \in call.rows : \E old \in Linked(pre_links.sources, r) :
           /\ r.reporter = None /\ old.reporter # None
           /\ r.source_url # None /\ old.source_url # None
           /\ r.source_url # old.source_url
           /\ r.notes # None /\ old.notes = None


----------------------------------------------------------------------------
(* bulk_upsert_places                                                       *)

\* (name or '').strip().lower() on the names used
LowerTable ==
    [ n \in {"Berkeley", "berkeley ", "Albany"} |->
        IF n = "Albany" THEN "albany" ELSE "berkeley" ]

\* place_key(name, state_code, place_type)
place_key(name, state_code, place_type) == <<state_code, LowerTable[name], place_type>>

PlaceRec(name, population, latitude, longitude) ==
    [ name |-> name, state_code |-> "CA", place_type |-> "city",
      population |-> population, latitude |-> latitude, longitude |-> longitude ]

PlaceInputs ==
    { PlaceRec("Berkeley", Some(100), Some(37), Some(122)),
      PlaceRec("Berkeley", None, None, None),
      PlaceRec("Berkeley", Some(200), None, Some(123)),
      PlaceRec("berkeley ", Some(300), None, None),
      PlaceRec("Albany", None, Some(38), None) }

\* bound: the number of records of one call
MaxPlaces == 2

\* bound: places.id drawn before a call
MaxPlaceRows == 4

\* _dedupe_places: dict keyed by place_key, a later record replacing an
\* earlier one in the earlier one's position
RECURSIVE _dedupe_places(_)
_dedupe_places(ps) ==
    IF ps = <<>> THEN <<>>
    ELSE LET n == Len(ps)
             front == _dedupe_places(SubSeq(ps, 1, n - 1))
             key(p) == place_key(p.name, p.state_code, p.place_type)
             hit == {i \in 1..Len(front) : key(front[i]) = key(ps[n])}
         IN  IF hit = {} THEN Append(front, ps[n])
             ELSE [i \in 1..Len(front) |-> IF i \in hit THEN ps[n] ELSE front[i]]

\* the unique key of table places: (name, state_code, place_type)
PlaceConflict(row, p) ==
    row.name = p.name /\ row.state_code = p.state_code /\ row.place_type = p.place_type

\* variant: DO UPDATE SET population = COALESCE(EXCLUDED.population, ...)
PlaceUpdateCoalesce(row, p) ==
    [ row EXCEPT !.population = Coalesce(p.population, @),
                 !.latitude = Coalesce(p.latitude, @),
                 !.longitude = Coalesce(p.longitude, @) ]

\* DO UPDATE SET population = EXCLUDED.population, latitude =
\* EXCLUDED.latitude, longitude = EXCLUDED.longitude
PlaceUpdate(row, p) ==
    [ row EXCEPT !.population = p.population,
                 !.latitude = p.latitude,
                 !.longitude = p.longitude ]

\* the INSERT ... ON CONFLICT ... RETURNING of the deduplicated records, row
\* by row: st = [tbl, next, created, updated, map]
RECURSIVE PlaceUpsertLoop(_, _)
PlaceUpsertLoop(st, ps) ==
    IF ps = <<>> THEN st
    ELSE LET p == Head(ps)
             hit == {id \in DOMAIN st.tbl : PlaceConflict(st.tbl[id], p)}
             key == place_key(p.name, p.state_code, p.place_type)
         IN  IF hit = {}
             THEN PlaceUpsertLoop(
                      [ tbl |-> (st.next :> p) @@ st.tbl, next |-> st.next + 1,
                        created |-> st.created + 1, updated |-> st.updated,
                        map |-> (key :> st.next) @@ st.map ],
                      Tail(ps))
             ELSE LET id == CHOOSE x \in hit : TRUE
                  IN  PlaceUpsertLoop(
                          [ tbl |-> [st.tbl EXCEPT ![id] = PlaceUpdate(@, p)],
                            \* the serial default was drawn for the proposed row
                            next |-> st.next + 1,
                            created |-> st.created, updated |-> st.updated + 1,
                            map |-> (key :> id) @@ st.map ],
                          Tail(ps))

\* one call of bulk_upsert_places
UpsertPlaces(ps) ==
    /\ nextPlaceId <= MaxPlaceRows
    /\ LET st == PlaceUpsertLoop([tbl |-> places, next |-> nextPlaceId, created |-> 0,
                                  updated |-> 0, map |-> <<>>], _dedupe_places(ps))
       IN  /\ places' = st.tbl
           /\ nextPlaceId' = st.next
           /\ place_call' = [ places |-> ps, pre |-> places, created |-> st.created,
                              updated |-> st.updated, place_id_map |-> st.map ]
    /\ UNCHANGED <<reforms, reform_reform_types, nextId, pc, batch, calls, enrichments,
                   lastBatch, pre_reforms, pre_types, locals, reform_sources,
                   reform_citations, pre_links, call, failed, run, data_ingestion,
                   error, merge>>

NextPlaces == \E ps \in SeqsUpTo(PlaceInputs, MaxPlaces) : UpsertPlaces(ps)

SpecPlaces == Init /\ [][NextPlaces]_vars

\* C27: when bulk_upsert_places receives a record whose (name, state_code,
\* place_type) is stored, no second row is created for it, no place is
\* deleted, the stored id is returned in the place-id map, and population,
\* latitude and longitude hold the incoming value where it is non-null and
\* the stored value where it is null.
C27_PlaceUpsert ==
    LET d == _dedupe_places(place_call.places)
    IN  /\ DOMAIN place_call.pre \subseteq DOMAIN places
        /\ \A i \in 1..Len(d) : \A id \in DOMAIN place_call.pre :
               PlaceConflict(place_call.pre[id], d[i]) =>
                   /\ \A x \in DOMAIN places : PlaceConflict(places[x], d[i]) => x = id
                   /\ place_call.place_id_map[
                          place_key(d[i].name, d[i].state_code, d[i].place_type)] = id
                   /\ \A f \in {"population", "latitude", "longitude"} :
                          places[id][f] = IF d[i][f] # None THEN d[i][f]
                                          ELSE place_call.pre[id][f]


----------------------------------------------------------------------------
(* The three writers of reform_reform_types side by side: bulk_upsert_reforms *)
(* (with bulk_upsert_reform_reform_types), update_reform_enrichment and     *)
(* merge_duplicate_reforms                                                  *)

\* stores of InitStore with the rows of reforms 1 and 2 fixed, one source
\* and one citation on reform 2; the reform types vary
InitTypes ==
    /\ InitStore
    /\ reforms[1] = StoredRow(1, None, Some({"A"}), None, Some("s1"), None, Some("u1"), None)
    /\ reforms[2] = StoredRow(1, Some(42), Some({"B"}), None, None, None, Some("u2"), None)
    /\ reform_sources = {SourceRow(2, 10, None), SourceRow(3, 10, None)}
    /\ Cardinality(DOMAIN reform_citations) = 2

NextTypes ==
    \/ \E rs \in SeqsUpTo(IngestInputs, 1) : Begin(rs)
    \/ InsertNew
    \/ UpdateExisting
    \/ Finalize
    \/ \E id \in DOMAIN reforms, e \in EnrichmentData, t \in {0} \cup ReformTypeIds :
           Enrich(id, e, t)
    \/ \E d \in {1, 2}, g \in {1, 2}, t \in {0, 3} : d # g /\ Merge(d, g, NoRows, t)

SpecTypes == InitTypes /\ [][NextTypes]_vars

\* C26: reform-type links are only ever inserted: in every step a pair of
\* reform_reform_types stays as it is, unless its reform is deleted in that
\* step as the loser of a successful merge.
C26_TypesOnlyAdded ==
    [][ \A p \in reform_reform_types :
            \/ p \in reform_reform_types'
            \/ /\ p[1] \notin DOMAIN reforms'
               /\ call'.fn = "merge_duplicate_reforms"
               /\ call'.success
               /\ call'.reform_id = p[1] ]_vars

\* a batch and an enrichment update were made and a merge has deleted the
\* loser with its pairs, the target holding its own and the loser's types
C26_Witness ==
    /\ MergeSucceeded
    /\ calls > 0
    /\ enrichments > 0
    /\ TypesOf(pre_types, call.reform_id) # {}
    /\ TypesOf(reform_reform_types, call.reform_id) = {}
    /\ TypesOf(pre_types, call.reform_id) \cup TypesOf(pre_types, call.target_reform_id)
           \subseteq TypesOf(reform_reform_types, call.target_reform_id)


----------------------------------------------------------------------------
(* merge_duplicate_reforms statement by statement                           *)
(* (ai_enrichment.py:225-441)                                               *)

\* variant: the DELETE comes before the reform types are copied
StatementAfterDeleteBeforeTypes(at) ==
    CASE at = "TargetLocated"   -> "fields"
      [] at = "FieldsMerged"    -> "sources"
      [] at = "SourcesMerged"   -> "citations"
      [] at = "CitationsMerged" -> "delete"
      [] OTHER                  -> "return"

\* the write that follows a position, in the order of the function's text:
\* UPDATE reforms (292-324), reform_sources (326-355), reform_citations
\* (357-390), reform_reform_types (392-431), DELETE (434)
StatementAfter(at) ==
    CASE at = "TargetLocated"   -> "fields"
      [] at = "FieldsMerged"    -> "sources"
      [] at = "SourcesMerged"   -> "citations"
      [] at = "CitationsMerged" -> "types"
      [] at = "TypesMerged"     -> "delete"
      [] OTHER                  -> "return"

\* the two SELECT * FROM reforms WHERE id = ... (227-239): without both rows
\* the function returns False
MergeLocate(duplicate_reform_id, target_reform_id, enrichment_data, reform_type_id) ==
    /\ AtRest
    /\ StatementAfter(merge.pc) = "return"
    /\ merge' = [ pc |-> IF Located(reforms, duplicate_reform_id, target_reform_id)
                         THEN "TargetLocated" ELSE "NotFound",
                  duplicate_reform_id |-> duplicate_reform_id,
                  target_reform_id |-> target_reform_id,
                  enrichment_data |-> enrichment_data,
                  reform_type_id |-> reform_type_id ]
    /\ call' = [ fn |-> "merge_duplicate_reforms",
                 reform_id |-> duplicate_reform_id,
                 target_reform_id |-> target_reform_id,
                 reform_type_id |-> reform_type_id,
                 enrichment_data |-> Some(enrichment_data),
                 success |-> FALSE, error_msg |-> "" ]
    /\ pre_reforms' = reforms
    /\ pre_types' = reform_reform_types
    /\ pre_links' = [sources |-> reform_sources, citations |-> reform_citations]
    /\ pc' = "idle"
    /\ UNCHANGED <<reforms, reform_reform_types, reform_sources, reform_citations,
                   nextId, batch, calls, enrichments, lastBatch, locals, failed, run,
                   data_ingestion, error, places, nextPlaceId, place_call>>

\* UPDATE reforms SET ... WHERE id = target_reform_id (292-324)
MergeFieldsStatement ==
    /\ StatementAfter(merge.pc) = "fields"
    /\ reforms' = [reforms EXCEPT ![merge.target_reform_id] =
                      MergeTargetRow(@, reforms[merge.duplicate_reform_id],
                                     merge.enrichment_data, enrichments + 1)]
    /\ merge' = [merge EXCEPT !.pc = "FieldsMerged"]
    /\ UNCHANGED <<reform_reform_types, reform_sources, reform_citations, call,
                   pre_reforms, pre_types, pre_links, pc, nextId, batch, calls,
                   enrichments, lastBatch, locals, failed, run, data_ingestion, error,
                   places, nextPlaceId, place_call>>

\* the INSERTs INTO reform_sources (326-355)
MergeSourcesStatement ==
    /\ StatementAfter(merge.pc) = "sources"
    /\ reform_sources' = MergeSources(reform_sources, merge.duplicate_reform_id,
                                      merge.target_reform_id)
    /\ merge' = [merge EXCEPT !.pc = "SourcesMerged"]
    /\ UNCHANGED <<reforms, reform_reform_types, reform_citations, call,
                   pre_reforms, pre_types, pre_links, pc, nextId, batch, calls,
                   enrichments, lastBatch, locals, failed, run, data_ingestion, error,
                   places, nextPlaceId, place_call>>

\* the INSERTs INTO reform_citations (357-390)
MergeCitationsStatement ==
    /\ StatementAfter(merge.pc) = "citations"
    /\ reform_citations' = MergeCitations(reform_citations, merge.duplicate_reform_id,
                                          merge.target_reform_id)
    /\ merge' = [merge EXCEPT !.pc = "CitationsMerged"]
    /\ UNCHANGED <<reforms, reform_reform_types, reform_sources, call,
                   pre_reforms, pre_types, pre_links, pc, nextId, batch, calls,
                   enrichments, lastBatch, locals, failed, run, data_ingestion, error,
                   places, nextPlaceId, place_call>>

\* the INSERTs INTO reform_reform_types (392-431)
MergeTypesStatement ==
    /\ StatementAfter(merge.pc) = "types"
    /\ reform_reform_types' = MergeTypes(reform_reform_types, merge.duplicate_reform_id,
                                         merge.target_reform_id, merge.reform_type_id)
    /\ merge' = [merge EXCEPT !.pc = "TypesMerged"]
    /\ UNCHANGED <<reforms, reform_sources, reform_citations, call,
                   pre_reforms, pre_types, pre_links, pc, nextId, batch, calls,
                   enrichments, lastBatch, locals, failed, run, data_ingestion, error,
                   places, nextPlaceId, place_call>>

\* DELETE FROM reforms WHERE id = duplicate_reform_id (434), then return True
MergeDeleteStatement ==
    /\ StatementAfter(merge.pc) = "delete"
    /\ LET db == DeleteDuplicate([reforms |-> reforms, types |-> reform_reform_types,
                                  sources |-> reform_sources,
                                  citations |-> reform_citations],
                                 merge.duplicate_reform_id)
       IN  /\ reforms' = db.reforms
           /\ reform_reform_types' = db.types
           /\ reform_sources' = db.sources
           /\ reform_citations' = db.citations
    /\ merge' = [merge EXCEPT !.pc = "LoserDeleted"]
    /\ call' = [call EXCEPT !.success = TRUE]
    /\ UNCHANGED <<pre_reforms, pre_types, pre_links, pc, nextId, batch, calls,
                   enrichments, lastBatch, locals, failed, run, data_ingestion, error,
                   places, nextPlaceId, place_call>>

NextStatements ==
    \/ \E d \in MergeIds, e \in MergeData, t \in MergeTypeIds :
           \E g \in MergeIds \ {d} : MergeLocate(d, g, e, t)
    \/ MergeFieldsStatement
    \/ MergeSourcesStatement
    \/ MergeCitationsStatement
    \/ MergeTypesStatement
    \/ MergeDeleteStatement

SpecStatements == InitStore /\ [][NextStatements]_vars


\* the four tables as they are, and as they were when the call began
Tables ==
    [ reforms |-> reforms, types |-> reform_reform_types,
      sources |-> reform_sources, citations |-> reform_citations ]

TablesBefore ==
    [ reforms |-> pre_reforms, types |-> pre_types,
      sources |-> pre_links.sources, citations |-> pre_links.citations ]

\* the loser row of the call under way has been deleted
LoserGone ==
    /\ merge.pc # "idle"
    /\ merge.duplicate_reform_id \in DOMAIN pre_reforms
    /\ merge.duplicate_reform_id \notin DOMAIN reforms

\* the target holds the fields, sources, citations and types of the loser
CopiedToTarget ==
    LET d == merge.duplicate_reform_id
        g == merge.target_reform_id
    IN  /\ g \in DOMAIN reforms
        /\ reforms[g] = MergeTargetRow(pre_reforms[g], pre_reforms[d],
                                       merge.enrichment_data, enrichments + 1)
        /\ SourceIdsOf(pre_links.sources, d) \subseteq SourceIdsOf(reform_sources, g)
        /\ CitationKeysOf(pre_links.citations, d)
               \subseteq CitationKeysOf(reform_citations, g)
        /\ TypesOf(pre_types, d) \subseteq TypesOf(reform_reform_types, g)

\* C28: merge_duplicate_reforms works in the order locate, fields, sources,
\* citations, types, delete: at each position the tables of the later steps
\* are as they were when the call began, the loser row is gone only when
\* its fields, sources, citations and types are on the target, and after a
\* failed lookup no table has changed.
C28_MergeOrder ==
    /\ merge.pc = "NotFound" => Tables = TablesBefore
    /\ merge.pc = "TargetLocated" => Tables = TablesBefore
    /\ merge.pc = "FieldsMerged" =>
           /\ reform_sources = pre_links.sources
           /\ reform_citations = pre_links.citations
           /\ reform_reform_types = pre_types
    /\ merge.pc = "SourcesMerged" =>
           /\ reform_citations = pre_links.citations
           /\ reform_reform_types = pre_types
    /\ merge.pc = "CitationsMerged" => reform_reform_types = pre_types
    /\ merge.pc \in {"TargetLocated", "FieldsMerged", "SourcesMerged",
                     "CitationsMerged", "TypesMerged"} =>
           merge.duplicate_reform_id \in DOMAIN reforms
    /\ LoserGone => CopiedToTarget
    /\ merge.pc = "LoserDeleted" => LoserGone

\* a merge ran to its DELETE with a loser that had a source, a citation and
\* a reform type the target lacked, and fields that changed the target row
C28_Witness ==
    LET d == merge.duplicate_reform_id
        g == merge.target_reform_id
    IN  /\ merge.pc = "LoserDeleted"
        /\ LoserGone
        /\ reforms[g] # pre_reforms[g]
        /\ SourceIdsOf(pre_links.sources, d) \ SourceIdsOf(pre_links.sources, g) # {}
        /\ CitationKeysOf(pre_links.citations, d)
               \ CitationKeysOf(pre_links.citations, g) # {}
        /\ TypesOf(pre_types, d) \ TypesOf(pre_types, g) # {}


----------------------------------------------------------------------------
(* The identity key at its four places: _dedupe_reforms, the partition and *)
(* result-ordering loops of bulk_upsert_reforms, and the existing-row      *)
(* lookup, on records whose adoption date is a string or a date object     *)

KeyInputs ==
    { Rec(1, None, Some("2020-01-01"), Some("adopted"), {1},
          Some({"A"}), None, None, Some("s1"), None),
      \* the same day as a datetime.date
      Rec(1, None, Some("datetime.date(2020, 1, 1)"), Some("adopted"), {2},
          Some({"B"}), None, None, Some("s2"), None),
      \* a date object next to a policy document, as create_reform_from_submission
      \* passes it
      Rec(1, Some(42), Some("datetime.date(2020, 1, 1)"), Some("proposed"), {1},
          None, None, None, Some("s3"), None),
      Rec(1, None, Some("2021-06-01"), None, {1},
          None, None, None, Some("s1"), None),
      Rec(2, None, None, None, {1}, None, Some({"residential"}), None, Some("s1"), None) }

KeyBatches == SeqsUpTo(KeyInputs, MaxBatch)

NextKeys ==
    \/ \E rs \in KeyBatches : Begin(rs)
    \/ InsertAccepted
    \/ InsertRejected
    \/ UpdateExisting
    \/ Finalize

SpecKeys == Init /\ [][NextKeys]_vars

\* the grouping key of a deduplicated record is its partition key
GroupingKeyIsPartitionKey ==
    \A i \in 1..Len(deduped) : DedupeKey(deduped[i]) = PartitionKey(deduped[i])

\* two deduplicated records never have the same partition key
PartitionKeysDistinct ==
    \A i, j \in 1..Len(deduped) :
        i # j => PartitionKey(deduped[i]) # PartitionKey(deduped[j])

\* the row a record was written to has the record's partition key at lookup
StoredKeyIsPartitionKey ==
    pc = "done" =>
        \A i \in 1..Len(deduped) :
            (final_reform_ids[i] # None /\ Val(final_reform_ids[i]) \in DOMAIN reforms)
                => RowKey(reforms[Val(final_reform_ids[i])]) = PartitionKey(deduped[i])

\* a record whose row was stored before the call is found as existing
StoredRowFound ==
    pc \in {"insert", "update", "finalize", "done", "psycopg2.Error"} =>
        \A i \in 1..Len(deduped) :
            (\E id \in DOMAIN pre_reforms :
                 RowKey(pre_reforms[id]) = RowKey(InsertRow(deduped[i])))
                => PartitionKey(deduped[i]) \in DOMAIN existing_map

\* C29: the identity key is the same wherever it is computed: in
\* _dedupe_reforms, in the partition and result-ordering steps and at lookup
\* for the stored row; so two deduplicated records never share a partition
\* key and a row inserted by one batch is found as existing by a later one.
C29_KeyEverywhereTheSame ==
    /\ GroupingKeyIsPartitionKey
    /\ PartitionKeysDistinct
    /\ StoredKeyIsPartitionKey
    /\ StoredRowFound

====
